---------------------------- MODULE Spec2Model ----------------------------
(***************************************************************************)
(* Verification model of the local-app-test data layer: the SharedWorker   *)
(* Connection Multiplexer (src/db/shared-worker.ts 219-249), the opfs      *)
(* Backend worker behind it, the Request Correlator / Migration Engine /   *)
(* Reset Controller of the shared-worker DatabaseProvider                  *)
(* (src/db/sqlite.ts 421-700) and the SharedWorker Backend it talks to     *)
(* (src/db/shared-worker.ts 1-217).                                        *)
(***************************************************************************)
EXTENDS Integers, Sequences, FiniteSets, TLC

(***************************************************************************)
(* Bounds of the model                                                     *)
(***************************************************************************)
\* number of foreground ports that may connect to the Multiplexer
MaxPorts == 2
\* number of messages the foreground ports may post to the Multiplexer in total
MaxSend == 3

PortIds == 1..MaxPorts

\* number of foreground connections of the SharedWorker Backend
MaxConns == 2
\* number of requests (ids) the connections may issue in total
MaxReqs == 9
\* number of resetDatabase() calls in total
MaxResets == 1
\* number of queries the components may issue in total
MaxQueries == 1
\* number of window.resetDatabase() calls of the page
MaxPageResets == 2
\* number of requests two concurrent connections may issue in total
MaxDuoReqs == 5
\* number of responses that may be delivered a second time
MaxDups == 1

\* context provider: requests, resetDatabase() calls, statements the engine
\* fails for a reason of its own (I/O, quota), calls made by components
MaxCxReqs == 8
MaxCxResets == 1
MaxFaults == 1
MaxCxQueries == 1
MaxMsgs == 4
MaxScripts == 2
MaxStmts == 2
Conns == 1..MaxConns

\* drizzle/*.sql: the statements of each migration script, in script order
\* (0000_adorable_lord_tyger.sql: CREATE TABLE, CREATE UNIQUE INDEX)
MigStmts == <<2>>
Migs == DOMAIN MigStmts

VARIABLES
    \* ---- Multiplexer (shared-worker.ts 219-249) ----
    ports,            \* Set<MessagePort> of registered ports
    opfsWorkerReady,  \* readiness flag
    messageQueue,     \* messages buffered until readiness
    portChan,         \* per port: messages posted by the foreground, not yet handled
    workerInbox,      \* messages posted to opfsWorker, not yet handled by it
    workerOut,        \* messages posted by opfsWorker, not yet handled by the Multiplexer
    portRecv,         \* per port: number of Backend messages fanned out to it
    \* ---- opfs Backend worker ----
    odb,              \* module variable `db`: "null" or "open"
    initAwait,        \* the `init` messages whose handler is suspended in `await init(...)`
    \* ---- history of the run (not program state) ----
    mounted,          \* ports whose foreground mount effect has run
    sentCount,        \* per port: number of messages posted so far
    preReady,         \* messages the Multiplexer received while not ready, in order
    posted,           \* messages the Multiplexer posted to opfsWorker, in order
    booted            \* the Backend was handed an init by its environment

muxVars == <<ports, opfsWorkerReady, messageQueue, portChan, workerInbox,
             workerOut, portRecv, odb, initAwait, mounted, sentCount,
             preReady, posted, booted>>

VARIABLES
    \* ---- DatabaseProvider, one per foreground connection (sqlite.ts 421-700) ----
    provMounted,      \* connections whose mount effect has run
    isInitialized,    \* per connection: React state isInitialized
    dbSet,            \* per connection: React state db is non-null
    awaiting,         \* per connection: React state awaiting, id -> promise handle
    awaitingRef,      \* per connection: awaitingRef.current, the map as of the last render
    runs,             \* the runMigrations() calls started so far
    toWorker,         \* per connection: messages posted on the port, not yet handled
    toConn,           \* per connection: messages posted to the port, not yet handled
    \* ---- SharedWorker Backend (shared-worker.ts 1-217) ----
    swPorts,          \* `ports`: Set<MessagePort>
    swHandler,        \* ports whose port.onmessage has been installed
    swDb,             \* `db`: "null" or "open"
    dbInitialized,
    initInProgress,
    initError,        \* initError !== null
    swInitFrom,       \* the port whose init handler is suspended in `await init(...)`, or 0
    store,            \* contents of the database file
    \* ---- history of the run (not program state) ----
    reqs,             \* the promises created by executeQuery / createCustomProxy
    gen,              \* per connection: number of resetDatabase() calls so far
    resetSnap,        \* per connection: the user rows stored when reset() was last called
    delivered,        \* <<h, g, b>>: a response to request h was handled in generation g,
                      \* b: awaitingRef.current was up to date with the state awaiting
    dup,              \* the responses that were delivered a second time
    loadEmpty         \* the LoadApplied requests that found no migration record stored

fgVars == <<provMounted, isInitialized, dbSet, awaiting, awaitingRef, runs,
           toWorker, toConn, reqs, gen, resetSnap, delivered, dup>>
swVars == <<swPorts, swHandler, swDb, dbInitialized, initInProgress, initError,
            swInitFrom, store, loadEmpty>>
VARIABLES
    \* ---- module-level connection of sqlite.ts 1-419 and its dedicated worker ----
    worker,           \* `worker`: the n-th Worker created by the page (0: at module load)
    wInbox,           \* messages posted to `worker`, not yet handled by it
    wOut,             \* messages posted by `worker`, not yet handled by the page
    wDb,              \* sqlite-worker.ts `db`: "null", or the file it is open on
    wPend,            \* files of the init handlers suspended in `await init(filename)`
    fileMain,         \* the database file /mydb.sqlite3
    fileNew,          \* the database file /mydb_<timestamp>.sqlite3 of the last reset
    mAwaiting,        \* `awaiting`: id -> promise handle
    mReqs,            \* the promises created by customProxy
    mRuns,            \* the runMigrations() calls started so far
    mIsInitialized,   \* `isInitialized`
    initResolve,      \* `initResolve` / `initReject`: the initializeSQLite call they settle, or 0
    mInits,           \* the initializeSQLite() calls made so far
    onmessage,        \* `worker.onmessage`: the tempHandlers stacked on the module handler
    mCalls,           \* the window.resetDatabase() calls made so far
    \* ---- history of the run (not program state) ----
    mLoadEmpty        \* load requests settled while the open file held no migration record

pageVars == <<worker, wInbox, wOut, wDb, wPend, fileMain, fileNew, mAwaiting, mReqs,
              mRuns, mIsInitialized, initResolve, mInits, onmessage, mCalls, mLoadEmpty>>

VARIABLES
    \* ---- DatabaseProvider of database-context.tsx and its dedicated worker ----
    cxWorker,         \* React state `worker`: the n-th Worker created (0: null)
    cxInbox,          \* messages posted to that worker, not yet handled by it
    cxOut,            \* messages posted by that worker, not yet handled by the page
    cxWDb,            \* sqlite-worker.ts `db`: "null" or "open"
    cxWInit,          \* the worker's init handler: "none", "pending", "done", "failed"
    cxFile,           \* the database file /mydb_<timestamp>.sqlite3 of that worker
    cxDb,             \* React state `db`: the worker its proxy posts to (0: null)
    cxIsInitialized,  \* React state isInitialized
    cxAwaiting,       \* React state awaiting, id -> promise handle
    cxAwaitingRef,    \* awaitingRef.current, the map as of the last render
    cxRuns,           \* the runMigrations() calls started so far
    \* ---- history of the run (not program state) ----
    cxReqs,           \* the promises created by executeQuery / createCustomProxy
    cxFaults,         \* number of statements the engine has failed for its own reasons
    cxStmts           \* prepared statements of the worker that are not finalized

ctxVars == <<cxWorker, cxInbox, cxOut, cxWDb, cxWInit, cxFile, cxDb, cxIsInitialized,
             cxAwaiting, cxAwaitingRef, cxRuns, cxReqs, cxFaults, cxStmts>>

\* const migrations = import.meta.glob('/drizzle/*.sql'): the scripts found at
\* build time in the order `for (const path in migrations)` visits them, each
\* with the number of its statements; the names are numbered so that their
\* lexicographic order is the order of the indices
VARIABLES migrations

\* Opening the database in the three Backends (SharedWorker, opfs worker,
\* dedicated worker) under one storage environment:
\*   stEnv  what the browser offers: opfs (the OPFS VFS is installed), sync
\*          (the durable database opens), async (the retry of the durable
\*          open succeeds), mem (a transient database opens)
\*   stPc   each Backend's position in its init handler
\*   stDb   the storage its handle was opened on
\*   stOut  the messages it has posted
\*   stSeen how many of them its foreground has handled
\*   stConn what the foreground's handler has made of them
VARIABLES stEnv, stPc, stDb, stOut, stSeen, stConn
openVars == <<stEnv, stPc, stDb, stOut, stSeen, stConn>>

\* The event loop of a Backend worker (SharedWorker or opfs worker) and the
\* frames of its async message handler:
\*   elKind       which of the two workers
\*   elQueue      the messages waiting to be dispatched ("init" / "exec")
\*   elArrived    how many messages have arrived
\*   elStack      the handler calls that are running, the innermost last
\*   elWaiting    handlers suspended in `await init(...)`
\*   elResumable  of these, those whose promise has settled
\*   elDb         the handle `db`
\*   elInProgress initInProgress
\*   elStmts      statements whose execution has begun and not finished
VARIABLES elKind, elQueue, elArrived, elStack, elWaiting, elResumable, elDb,
          elInProgress, elStmts
loopVars == <<elKind, elQueue, elArrived, elStack, elWaiting, elResumable, elDb,
              elInProgress, elStmts>>
envVars == <<migrations, openVars, loopVars>>

sysVars == <<fgVars, swVars, pageVars, ctxVars, envVars>>

vars == <<muxVars, sysVars>>

(***************************************************************************)
(* Messages                                                                *)
(***************************************************************************)
\* a foreground message {type, payload}; (from, seq) identifies it in the run
FgMsg(p, k, t) == [from |-> p, seq |-> k, type |-> t]
\* a Backend message {type, payload}; `re` is the request it answers
BkMsg(t, m) == [type |-> t, re |-> <<m.from, m.seq>>]

FgTypes == {"init", "exec-all", "exec-get"}

Range(s) == {s[i] : i \in DOMAIN s}

RECURSIVE SumUpTo(_, _)
SumUpTo(f, n) == IF n = 0 THEN 0 ELSE f[n] + SumUpTo(f, n - 1)

(***************************************************************************)
(* Multiplexer: shared-worker.ts 219-249                                   *)
(***************************************************************************)
\* messageQueue.push(msg.data)
QueuePushFront(q, m) == <<m>> \o q
QueuePush(q, m) == Append(q, m)

\* while (messageQueue.length > 0) opfsWorker.postMessage(messageQueue.shift())
FlushDropLast(inbox, q) == IF q = <<>> THEN inbox ELSE inbox \o SubSeq(q, 1, Len(q) - 1)
Flush(inbox, q) == inbox \o q

InitMux ==
    /\ ports = {}
    /\ opfsWorkerReady = FALSE
    /\ messageQueue = <<>>
    /\ portChan = [p \in PortIds |-> <<>>]
    /\ workerInbox = <<>>
    /\ workerOut = <<>>
    /\ portRecv = [p \in PortIds |-> 0]
    /\ odb = "null"
    /\ initAwait = {}
    /\ mounted = {}
    /\ sentCount = [p \in PortIds |-> 0]
    /\ preReady = <<>>
    /\ posted = <<>>
    /\ booted = FALSE

\* DatabaseProvider mount effect: new SharedDbWorker(), port.start(), post init
Mount(p) ==
    /\ p \notin mounted
    /\ SumUpTo(sentCount, MaxPorts) < MaxSend
    /\ mounted' = mounted \cup {p}
    /\ sentCount' = [sentCount EXCEPT ![p] = 1]
    /\ portChan' = [portChan EXCEPT ![p] = Append(@, FgMsg(p, 1, "init"))]
    /\ UNCHANGED <<ports, opfsWorkerReady, messageQueue, workerInbox, workerOut,
                   portRecv, odb, initAwait, preReady, posted, booted>>
    /\ UNCHANGED sysVars

\* a later message of a mounted foreground: resetDatabase's init, or a request
PortPost(p, t) ==
    /\ p \in mounted
    /\ SumUpTo(sentCount, MaxPorts) < MaxSend
    /\ sentCount' = [sentCount EXCEPT ![p] = @ + 1]
    /\ portChan' = [portChan EXCEPT ![p] = Append(@, FgMsg(p, sentCount[p] + 1, t))]
    /\ UNCHANGED <<ports, opfsWorkerReady, messageQueue, workerInbox, workerOut,
                   portRecv, odb, initAwait, mounted, preReady, posted, booted>>
    /\ UNCHANGED sysVars

\* sw.addEventListener('connect', ...): ports.add(port), install port.onmessage
MuxConnect(p) ==
    /\ p \in mounted
    /\ p \notin ports
    /\ ports' = ports \cup {p}
    /\ UNCHANGED <<opfsWorkerReady, messageQueue, portChan, workerInbox, workerOut,
                   portRecv, odb, initAwait, mounted, sentCount, preReady, posted,
                   booted>>
    /\ UNCHANGED sysVars

\* port.onmessage = (msg) => { if (opfsWorkerReady) post else queue }
MuxPortOnMessage(p) ==
    /\ p \in ports
    /\ portChan[p] # <<>>
    /\ LET m == Head(portChan[p]) IN
        /\ portChan' = [portChan EXCEPT ![p] = Tail(@)]
        /\ IF opfsWorkerReady
              THEN /\ workerInbox' = Append(workerInbox, m)
                   /\ posted' = Append(posted, m)
                   /\ UNCHANGED <<messageQueue, preReady>>
              ELSE /\ messageQueue' = QueuePush(messageQueue, m)
                   /\ preReady' = Append(preReady, m)
                   /\ UNCHANGED <<workerInbox, posted>>
    /\ UNCHANGED <<ports, opfsWorkerReady, workerOut, portRecv, odb, initAwait,
                   mounted, sentCount, booted>>
    /\ UNCHANGED sysVars

\* variant: `if` in place of `while`, one queued message is posted
MuxWorkerOnMessageFlushOne ==
    /\ workerOut # <<>>
    /\ LET e == Head(workerOut) IN
        /\ workerOut' = Tail(workerOut)
        /\ IF e.type = "init-finished"
              THEN /\ opfsWorkerReady' = TRUE
                   /\ workerInbox' = Flush(workerInbox, SubSeq(messageQueue, 1,
                                             IF messageQueue = <<>> THEN 0 ELSE 1))
                   /\ posted' = posted \o SubSeq(workerInbox', Len(workerInbox) + 1,
                                                 Len(workerInbox'))
                   /\ messageQueue' = IF messageQueue = <<>> THEN <<>>
                                                             ELSE Tail(messageQueue)
              ELSE UNCHANGED <<opfsWorkerReady, workerInbox, posted, messageQueue>>
        /\ portRecv' = [p \in PortIds |-> IF p \in ports THEN portRecv[p] + 1
                                                         ELSE portRecv[p]]
    /\ UNCHANGED <<ports, portChan, odb, initAwait, mounted, sentCount, preReady,
                   booted>>
    /\ UNCHANGED sysVars

\* opfsWorker.onmessage = (e) => { flush on init-finished; fan out e.data }
MuxWorkerOnMessage ==
    /\ workerOut # <<>>
    /\ LET e == Head(workerOut) IN
        /\ workerOut' = Tail(workerOut)
        /\ IF e.type = "init-finished"
              THEN /\ opfsWorkerReady' = TRUE
                   /\ workerInbox' = Flush(workerInbox, messageQueue)
                   /\ posted' = posted \o SubSeq(workerInbox', Len(workerInbox) + 1,
                                                 Len(workerInbox'))
                   /\ messageQueue' = <<>>
              ELSE UNCHANGED <<opfsWorkerReady, workerInbox, posted, messageQueue>>
        /\ portRecv' = [p \in PortIds |-> IF p \in ports THEN portRecv[p] + 1
                                                         ELSE portRecv[p]]
    /\ UNCHANGED <<ports, portChan, odb, initAwait, mounted, sentCount, preReady,
                   booted>>
    /\ UNCHANGED sysVars

(***************************************************************************)
(* opfs Backend worker: self.onmessage (drizzle/0000_adorable_lord_tyger   *)
(* .sql 66-125) and init (40-64)                                           *)
(***************************************************************************)
\* case 'init': the handler runs up to `await init(payload.filename)`
OpfsOnInit ==
    /\ workerInbox # <<>>
    /\ Head(workerInbox).type = "init"
    /\ workerInbox' = Tail(workerInbox)
    /\ initAwait' = initAwait \cup {Head(workerInbox)}
    /\ UNCHANGED <<ports, opfsWorkerReady, messageQueue, portChan, workerOut,
                   portRecv, odb, mounted, sentCount, preReady, posted, booted>>
    /\ UNCHANGED sysVars

\* init() resumes: db opened, debug and init-finished posted; or it throws
\* and the outer catch posts {type: 'error'}
OpfsInitDone(m, ok) ==
    /\ m \in initAwait
    /\ initAwait' = initAwait \ {m}
    /\ IF ok
          THEN /\ odb' = "open"
               /\ workerOut' = workerOut \o <<BkMsg("debug", m), BkMsg("init-finished", m)>>
          ELSE /\ odb' = odb
               /\ workerOut' = Append(workerOut, BkMsg("error", m))
    /\ UNCHANGED <<ports, opfsWorkerReady, messageQueue, portChan, workerInbox,
                   portRecv, mounted, sentCount, preReady, posted, booted>>
    /\ UNCHANGED sysVars

\* case 'exec-all' / 'exec-get': one response per request
OpfsOnExec(ok) ==
    /\ workerInbox # <<>>
    /\ Head(workerInbox).type \in {"exec-all", "exec-get"}
    /\ workerInbox' = Tail(workerInbox)
    /\ LET m == Head(workerInbox) IN
          IF odb = "null" \/ ~ok
             THEN workerOut' = Append(workerOut, BkMsg("exec-error", m))
             ELSE workerOut' = Append(workerOut, BkMsg("exec-finished", m))
    /\ UNCHANGED <<ports, opfsWorkerReady, messageQueue, portChan, portRecv, odb,
                   initAwait, mounted, sentCount, preReady, posted, booted>>
    /\ UNCHANGED sysVars

\* Environment: the init handshake of the Backend is started from outside the
\* Multiplexer's queue (no statement of shared-worker.ts 219-249 posts to
\* opfsWorker while opfsWorkerReady is false).
BootMsg == FgMsg(0, 0, "init")
HandshakeStart ==
    /\ ~booted
    /\ booted' = TRUE
    /\ workerInbox' = Append(workerInbox, BootMsg)
    /\ UNCHANGED <<ports, opfsWorkerReady, messageQueue, portChan, workerOut,
                   portRecv, odb, initAwait, mounted, sentCount, preReady, posted>>
    /\ UNCHANGED sysVars

NextMux ==
    \/ \E p \in PortIds : Mount(p)
    \/ \E p \in PortIds, t \in FgTypes : PortPost(p, t)
    \/ \E p \in PortIds : MuxConnect(p)
    \/ \E p \in PortIds : MuxPortOnMessage(p)
    \/ MuxWorkerOnMessage
    \/ OpfsOnInit
    \/ \E m \in initAwait, ok \in BOOLEAN : OpfsInitDone(m, ok)
    \/ \E ok \in BOOLEAN : OpfsOnExec(ok)
    \/ HandshakeStart


(***************************************************************************)
(* The embedded database: the statements this program sends, with the      *)
(* effect SQLite gives them on the schema of drizzle/0000_*.sql             *)
(***************************************************************************)
Sql(k, m, st) == [k |-> k, m |-> m, s |-> st]
NoSql == Sql("none", 0, 0)
\* CREATE TABLE IF NOT EXISTS __drizzle_migrations
EnsureSql == Sql("ensure", 0, 0)
\* SELECT name FROM __drizzle_migrations ORDER BY id
LoadSql == Sql("load", 0, 0)
\* statement st of migration script m
StmtSql(m, st) == Sql("stmt", m, st)
\* INSERT INTO __drizzle_migrations (name) VALUES (m)
MarkSql(m) == Sql("mark", m, 0)
\* seed.ts: INSERT of the 8 seed rows into ingredients
SeedSql == Sql("seed", 0, 0)
\* a component's INSERT into / SELECT from ingredients
WriteSql == Sql("write", 0, 0)
ReadSql == Sql("read", 0, 0)

\* an empty database file
EmptyStore == [mt |-> FALSE, recs |-> <<>>, objs |-> {}, seeds |-> 0, user |-> {}]

\* the ingredients table and its unique index on title
TableObj == <<1, 1>>
IndexObj == <<1, 2>>

\* does the statement fail (prepare or step throws)? CREATE TABLE / CREATE
\* INDEX fail when the object exists, CREATE INDEX when the table is missing
SqlFails(q, h, st) ==
    CASE q.k = "ensure" -> FALSE
      [] q.k = "load"   -> ~st.mt
      [] q.k = "stmt"   -> \/ <<q.m, q.s>> \in st.objs
                           \/ (<<q.m, q.s>> = IndexObj /\ TableObj \notin st.objs)
      [] q.k = "mark"   -> ~st.mt \/ q.m \in Range(st.recs)
      [] q.k = "seed"   -> TableObj \notin st.objs \/ (IndexObj \in st.objs /\ st.seeds > 0)
      [] q.k = "write"  -> TableObj \notin st.objs
      [] q.k = "read"   -> TableObj \notin st.objs
      [] OTHER          -> TRUE

\* the database after the statement of request h succeeded
SqlEffect(q, h, st) ==
    CASE q.k = "ensure" -> [st EXCEPT !.mt = TRUE]
      [] q.k = "stmt"   -> [st EXCEPT !.objs = @ \cup {<<q.m, q.s>>}]
      [] q.k = "mark"   -> [st EXCEPT !.recs = Append(@, q.m)]
      [] q.k = "seed"   -> [st EXCEPT !.seeds = @ + 1]
      [] q.k = "write"  -> [st EXCEPT !.user = @ \cup {h}]
      [] OTHER          -> st

\* the rows written by the user interface, in insertion order
RECURSIVE UserRows(_)
UserRows(hs) ==
    IF hs = {} THEN <<>>
    ELSE LET h == CHOOSE x \in hs : \A y \in hs : x <= y
         IN  <<<<"user", h>>>> \o UserRows(hs \ {h})

\* the rows the statement yields (stepped until exhausted), each row the
\* tuple of its column values: the recorded names, or the ingredients (the
\* rows of each seed insert stand as one row)
SqlRows(q, st) ==
    CASE q.k = "load" -> [i \in DOMAIN st.recs |-> <<st.recs[i]>>]
      [] q.k = "read" -> [i \in 1..st.seeds |-> <<"seed", i>>] \o UserRows(st.user)
      [] OTHER        -> <<>>

(***************************************************************************)
(* Messages between a DatabaseProvider and the SharedWorker                *)
(***************************************************************************)
\* {type: 'init', payload: {filename}}; del: filename carries delete-before-open
InitMsg(del) == [type |-> "init", id |-> 0, sql |-> NoSql, h |-> 0, del |-> del]
\* {type: 'exec-all' | 'exec-get', payload: {id, sql, params}}; h names the promise
ExecMsg(t, id, q, h) == [type |-> t, id |-> id, sql |-> q, h |-> h, del |-> FALSE]
\* {type, payload}: re names the request a response was produced for
ReplyAnon(t, id, rows, re) == [type |-> t, id |-> 0, rows |-> rows, re |-> re]
Reply(t, id, rows, re) == [type |-> t, id |-> id, rows |-> rows, re |-> re]

(***************************************************************************)
(* SharedWorker Backend: shared-worker.ts 1-217                            *)
(***************************************************************************)
\* post one message to every port of a set
FanOut(chan, ps, msgs) == [c \in Conns |-> IF c \in ps THEN chan[c] \o msgs ELSE chan[c]]

\* self.addEventListener('connect', ...)
SwConnect(c) ==
    /\ c \in provMounted
    /\ c \notin swPorts
    /\ swPorts' = swPorts \cup {c}
    /\ IF initError
          THEN /\ toConn' = [toConn EXCEPT ![c] = Append(@, Reply("init-error", 0, <<>>, 0))]
               /\ UNCHANGED swHandler
          ELSE /\ toConn' = IF dbInitialized
                               THEN [toConn EXCEPT ![c] = Append(@, Reply("init-finished", 0, <<>>, 0))]
                               ELSE toConn
               /\ swHandler' = swHandler \cup {c}
    /\ UNCHANGED <<swDb, dbInitialized, initInProgress, initError, swInitFrom, store,
                   loadEmpty>>
    /\ UNCHANGED <<provMounted, isInitialized, dbSet, awaiting, awaitingRef, runs,
                   toWorker, reqs, gen, resetSnap>>
    /\ UNCHANGED <<envVars, ctxVars, muxVars, pageVars, delivered, dup>>

\* port.onmessage, case 'init', without the test of initInProgress
SwOnInitUnguarded(c) ==
    /\ c \in swHandler
    /\ toWorker[c] # <<>>
    /\ Head(toWorker[c]).type = "init"
    /\ toWorker' = [toWorker EXCEPT ![c] = Tail(@)]
    /\ IF dbInitialized
          THEN /\ toConn' = [toConn EXCEPT ![c] = Append(@, Reply("init-finished", 0, <<>>, 0))]
               /\ UNCHANGED <<initInProgress, initError, swInitFrom>>
          ELSE IF FALSE
          THEN /\ toConn' = [toConn EXCEPT ![c] = Append(@, Reply("init-error", 0, <<>>, 0))]
               /\ UNCHANGED <<initInProgress, initError, swInitFrom>>
          ELSE /\ initInProgress' = TRUE
               /\ initError' = FALSE
               /\ swInitFrom' = c
               /\ UNCHANGED toConn
    /\ UNCHANGED <<swPorts, swHandler, swDb, dbInitialized, store, loadEmpty>>
    /\ UNCHANGED <<provMounted, isInitialized, dbSet, awaiting, awaitingRef, runs,
                   reqs, gen, resetSnap>>
    /\ UNCHANGED <<envVars, ctxVars, muxVars, pageVars, delivered, dup>>

\* port.onmessage, case 'init'
SwOnInit(c) ==
    /\ c \in swHandler
    /\ toWorker[c] # <<>>
    /\ Head(toWorker[c]).type = "init"
    /\ toWorker' = [toWorker EXCEPT ![c] = Tail(@)]
    /\ IF dbInitialized
          THEN /\ toConn' = [toConn EXCEPT ![c] = Append(@, Reply("init-finished", 0, <<>>, 0))]
               /\ UNCHANGED <<initInProgress, initError, swInitFrom>>
          ELSE IF initInProgress
          THEN /\ toConn' = [toConn EXCEPT ![c] = Append(@, Reply("init-error", 0, <<>>, 0))]
               /\ UNCHANGED <<initInProgress, initError, swInitFrom>>
          ELSE /\ initInProgress' = TRUE
               /\ initError' = FALSE
               /\ swInitFrom' = c
               /\ UNCHANGED toConn
    /\ UNCHANGED <<swPorts, swHandler, swDb, dbInitialized, store, loadEmpty>>
    /\ UNCHANGED <<provMounted, isInitialized, dbSet, awaiting, awaitingRef, runs,
                   reqs, gen, resetSnap>>
    /\ UNCHANGED <<envVars, ctxVars, muxVars, pageVars, delivered, dup>>

\* `await init(filename)` resumes: the database is open and init-finished is
\* posted to every port, or init threw and init-error is posted to every port
SwInitDone(ok) ==
    /\ swInitFrom # 0
    /\ swInitFrom' = 0
    /\ initInProgress' = FALSE
    /\ IF ok
          THEN /\ swDb' = "open"
               /\ dbInitialized' = TRUE
               /\ initError' = initError
               /\ toConn' = FanOut(toConn, swPorts, <<Reply("debug", 0, <<>>, 0),
                                                      Reply("init-finished", 0, <<>>, 0)>>)
          ELSE /\ initError' = TRUE
               /\ toConn' = FanOut(toConn, swPorts, <<Reply("init-error", 0, <<>>, 0)>>)
               /\ UNCHANGED <<swDb, dbInitialized>>
    /\ UNCHANGED <<swPorts, swHandler, store, loadEmpty>>
    /\ UNCHANGED <<provMounted, isInitialized, dbSet, awaiting, awaitingRef, runs,
                   toWorker, reqs, gen, resetSnap>>
    /\ UNCHANGED <<envVars, ctxVars, muxVars, pageVars, delivered, dup>>

\* rows of an exec-get: the first row or null; of an exec-all: every row
\* JavaScript's null, a value that is neither a row nor a list of rows
Null == <<"null">>
GetRowsNoNull(t, rows) == IF t = "exec-get" /\ rows # <<>> THEN Head(rows) ELSE rows
GetRows(t, rows) ==
    IF t = "exec-get" THEN IF rows = <<>> THEN Null ELSE Head(rows)
                      ELSE rows

\* port.onmessage, case 'exec-all' / 'exec-get': the reply goes to the sender
SwOnExec(c) ==
    /\ c \in swHandler
    /\ toWorker[c] # <<>>
    /\ Head(toWorker[c]).type \in {"exec-all", "exec-get"}
    /\ toWorker' = [toWorker EXCEPT ![c] = Tail(@)]
    /\ LET m == Head(toWorker[c]) IN
          IF swDb = "null" \/ SqlFails(m.sql, m.h, store)
             THEN /\ toConn' = [toConn EXCEPT ![c] = Append(@, Reply("exec-error", m.id, <<>>, m.h))]
                  /\ UNCHANGED <<store, loadEmpty>>
             ELSE /\ toConn' = [toConn EXCEPT ![c] =
                                   Append(@, Reply("exec-finished", m.id,
                                                   GetRows(m.type, SqlRows(m.sql, store)), m.h))]
                  /\ store' = SqlEffect(m.sql, m.h, store)
                  /\ loadEmpty' = IF m.sql = LoadSql /\ store.recs = <<>>
                                     THEN loadEmpty \cup {m.h} ELSE loadEmpty
    /\ UNCHANGED <<swPorts, swHandler, swDb, dbInitialized, initInProgress, initError,
                   swInitFrom>>
    /\ UNCHANGED <<provMounted, isInitialized, dbSet, awaiting, awaitingRef, runs,
                   reqs, gen, resetSnap>>
    /\ UNCHANGED <<envVars, ctxVars, muxVars, pageVars, delivered, dup>>

(***************************************************************************)
(* DatabaseProvider of the shared-worker build: sqlite.ts 421-700          *)
(***************************************************************************)
EmptyMap == [x \in {} |-> 0]
MapPut(f, k, v) == [x \in DOMAIN f \cup {k} |-> IF x = k THEN v ELSE f[x]]
\* delete newAwaiting[id] / delete awaiting[id]
MapKeep(f, k) == f
MapDel(f, k) == [x \in DOMAIN f \ {k} |-> f[x]]

\* uuid(): the n-th id generated in the run; ids never repeat
uuidReused(n) == 1 + (n % 2)
uuid(n) == n

\* the promise created by executeQuery / createCustomProxy
NewReq(id, c, q, t) ==
    [id |-> id, conn |-> c, gen |-> gen[c], q |-> q, t |-> t, st |-> "pending", by |-> 0]

\* a runMigrations() call, suspended at `await ensureMigrationsTable()`
\* (after: the runs that had returned normally when this one was started)
NewRun(c, h) ==
    [conn |-> c, pc |-> "ensure", applied |-> {}, fresh |-> FALSE, mi |-> 0, si |-> 0,
     wait |-> h, loadH |-> 0, seeded |-> FALSE, doneGen |-> 0,
     after |-> {r \in DOMAIN runs : runs[r].pc = "done"}]

\* for (const path in migrations): the next script after `from` that is not applied
NextMigAll(applied, from) ==
    IF \E m \in DOMAIN migrations : m > from
       THEN CHOOSE m \in DOMAIN migrations : m > from /\ \A n \in DOMAIN migrations : n > from => m <= n
       ELSE 0
NextMigLast(applied, from) ==
    IF \E m \in DOMAIN migrations : m > from /\ m \notin applied
       THEN CHOOSE m \in DOMAIN migrations :
                /\ m > from /\ m \notin applied
                /\ \A n \in DOMAIN migrations : (n > from /\ n \notin applied) => m >= n
       ELSE 0
NextMig(applied, from) ==
    IF \E m \in DOMAIN migrations : m > from /\ m \notin applied
       THEN CHOOSE m \in DOMAIN migrations : /\ m > from /\ m \notin applied
                                /\ \A n \in DOMAIN migrations : (n > from /\ n \notin applied) => m <= n
       ELSE 0

\* migrations.map((row) => row[0]) / (result.rows || []).flat()
Names(rows) == {rows[i][1] : i \in DOMAIN rows}

\* const isFreshDatabase = appliedMigrations.length === 0
IsFreshNever(rows) == FALSE
IsFreshDatabase(rows) == Len(rows) = 0

\* if (isFreshDatabase) await runSeeds(); then runMigrations() returns
SeedAlways(run) ==
    [run |-> [run EXCEPT !.pc = "seed", !.seeded = TRUE], send |-> SeedSql, end |-> "none"]
SeedIfFresh(run) ==
    IF run.fresh
       THEN [run |-> [run EXCEPT !.pc = "seed", !.seeded = TRUE], send |-> SeedSql,
             end |-> "none"]
       ELSE [run |-> [run EXCEPT !.pc = "done", !.wait = 0], send |-> NoSql, end |-> "ok"]

\* the next script, or the end of the loop
NextScript(run, from) ==
    IF NextMig(run.applied, from) # 0
       THEN [run |-> [run EXCEPT !.pc = "script", !.mi = NextMig(run.applied, from),
                                 !.si = 0, !.wait = 0],
             send |-> NoSql, end |-> "none"]
       ELSE SeedIfFresh(run)

\* for (const query of queries): is there a statement after the one just executed?
MoreStmtsNever(run) == FALSE
MoreStmts(run) == run.si < migrations[run.mi]

\* seed(): try { await db.insert(...) } catch (e) { log(...) } never throws
SeedThrowsOnReject(ok) == ~ok
SeedThrows(ok) == FALSE

\* catch (err) { ...; throw err }: a rejected request makes the run throw
RethrowsNever(ok) == FALSE
Rethrows(ok) == ~ok

\* runMigrations() resumes when the promise it awaits settles (ok: resolved
\* with rows; not ok: rejected): the run as it continues, the statement it
\* sends next and whether it returned ("ok"), threw ("fail") or goes on
Advance(run, ok, rows) ==
    IF run.pc = "seed" /\ ~SeedThrows(ok)
       \* seed() catches a failing insert; runSeeds and the run return normally
       THEN [run |-> [run EXCEPT !.pc = "done", !.wait = 0], send |-> NoSql, end |-> "ok"]
    ELSE IF Rethrows(ok)
       THEN [run |-> [run EXCEPT !.pc = "failed", !.wait = 0], send |-> NoSql, end |-> "fail"]
    ELSE IF run.pc = "ensure"
       THEN [run |-> [run EXCEPT !.pc = "load"], send |-> LoadSql, end |-> "none"]
    ELSE IF run.pc = "load"
       THEN NextScript([run EXCEPT !.applied = Names(rows),
                                   !.fresh = IsFreshDatabase(rows)], 0)
    ELSE IF run.pc = "stmt"
       THEN IF MoreStmts(run)
               THEN [run |-> [run EXCEPT !.si = @ + 1], send |-> StmtSql(run.mi, run.si + 1),
                     end |-> "none"]
               ELSE [run |-> [run EXCEPT !.pc = "mark"], send |-> MarkSql(run.mi),
                     end |-> "none"]
    ELSE \* run.pc = "mark"
       NextScript(run, run.mi)

\* .then(() => { setDb(newDb); setIsInitialized(true) })
\* .catch(() => setIsInitialized(false))
ReadyOnEnd(end) == end = "ok"

ProvInit ==
    /\ provMounted = {}
    /\ isInitialized = [c \in Conns |-> FALSE]
    /\ dbSet = [c \in Conns |-> FALSE]
    /\ awaiting = [c \in Conns |-> EmptyMap]
    /\ awaitingRef = [c \in Conns |-> EmptyMap]
    /\ runs = <<>>
    /\ toWorker = [c \in Conns |-> <<>>]
    /\ toConn = [c \in Conns |-> <<>>]
    /\ reqs = <<>>
    /\ gen = [c \in Conns |-> 0]
    /\ resetSnap = [c \in Conns |-> {}]
    /\ delivered = {}
    /\ dup = {}

SwInit ==
    /\ swPorts = {}
    /\ swHandler = {}
    /\ swDb = "null"
    /\ dbInitialized = FALSE
    /\ initInProgress = FALSE
    /\ initError = FALSE
    /\ swInitFrom = 0
    /\ store = EmptyStore
    /\ loadEmpty = {}

\* mount effect: new SharedDbWorker(), port.onmessage = handleMessage, post init
ProviderMount(c) ==
    /\ c \notin provMounted
    /\ provMounted' = provMounted \cup {c}
    /\ toWorker' = [toWorker EXCEPT ![c] = Append(@, InitMsg(FALSE))]
    /\ UNCHANGED <<isInitialized, dbSet, awaiting, awaitingRef, runs, toConn, reqs,
                   gen, resetSnap>>
    /\ UNCHANGED swVars
    /\ UNCHANGED <<envVars, ctxVars, muxVars, pageVars, delivered, dup>>

\* React re-renders the provider: awaitingRef.current = awaiting
Render(c) ==
    /\ awaitingRef[c] # awaiting[c]
    /\ awaitingRef' = [awaitingRef EXCEPT ![c] = awaiting[c]]
    /\ UNCHANGED <<provMounted, isInitialized, dbSet, awaiting, runs, toWorker, toConn,
                   reqs, gen, resetSnap>>
    /\ UNCHANGED swVars
    /\ UNCHANGED <<envVars, ctxVars, muxVars, pageVars, delivered, dup>>

\* executeQuery / the proxy of createCustomProxy: register the promise under a
\* fresh id and post the request. aw and rq are the pending map and the
\* promises as the caller left them.
SendExec(c, t, q, aw, rq) ==
    LET h == Len(rq) + 1
        id == uuid(h)
    IN  /\ Len(rq) < MaxReqs
        /\ reqs' = Append(rq, NewReq(id, c, q, t))
        /\ awaiting' = [awaiting EXCEPT ![c] = MapPut(aw, id, h)]
        /\ toWorker' = [toWorker EXCEPT ![c] = Append(@, ExecMsg(t, id, q, h))]

\* a component calls db.insert(...) / db.select(...) through the context
UserQueries == {<<"exec-all", WriteSql>>, <<"exec-all", ReadSql>>, <<"exec-get", ReadSql>>}
NumUserQueries == Cardinality({h \in DOMAIN reqs : reqs[h].q.k \in {"write", "read"}})
UserQuery(c, tq) ==
    /\ dbSet[c]
    /\ NumUserQueries < MaxQueries
    /\ SendExec(c, tq[1], tq[2], awaiting[c], reqs)
    /\ UNCHANGED <<provMounted, isInitialized, dbSet, awaitingRef, runs, toConn, gen,
                   resetSnap>>
    /\ UNCHANGED swVars
    /\ UNCHANGED <<envVars, ctxVars, muxVars, pageVars, delivered, dup>>

\* resetDatabase (591-601)
NumResets == SumUpTo(gen, MaxConns)
ResetDatabase(c) ==
    /\ c \in provMounted
    /\ NumResets < MaxResets
    /\ isInitialized' = [isInitialized EXCEPT ![c] = FALSE]
    /\ dbSet' = [dbSet EXCEPT ![c] = FALSE]
    /\ awaiting' = [awaiting EXCEPT ![c] = EmptyMap]
    /\ toWorker' = [toWorker EXCEPT ![c] = Append(@, InitMsg(TRUE))]
    /\ gen' = [gen EXCEPT ![c] = @ + 1]
    /\ resetSnap' = [resetSnap EXCEPT ![c] = store.user]
    /\ UNCHANGED <<provMounted, awaitingRef, runs, toConn, reqs>>
    /\ UNCHANGED swVars
    /\ UNCHANGED <<envVars, ctxVars, muxVars, pageVars, delivered, dup>>

\* handleMessage, case 'init-finished': runMigrations() runs up to its first await
OnInitFinished(c) ==
    /\ SendExec(c, "exec-all", EnsureSql, awaiting[c], reqs)
    /\ runs' = Append(runs, NewRun(c, Len(reqs) + 1))
    /\ UNCHANGED <<isInitialized, dbSet>>

\* a suspended run resumes with the outcome of the promise it awaited
Resume(c, r, ok, rows, aw, rq) ==
    LET adv == Advance(runs[r], ok, rows) IN
    /\ IF adv.send # NoSql
          THEN /\ SendExec(c, "exec-all", adv.send, aw, rq)
               /\ runs' = [runs EXCEPT ![r] = [adv.run EXCEPT
                              !.wait = Len(rq) + 1,
                              !.loadH = IF adv.send = LoadSql THEN Len(rq) + 1 ELSE @]]
          ELSE /\ reqs' = rq
               /\ awaiting' = [awaiting EXCEPT ![c] = aw]
               /\ toWorker' = toWorker
               /\ runs' = [runs EXCEPT ![r] = [adv.run EXCEPT !.doneGen = gen[c]]]
    /\ IF adv.end = "none"
          THEN UNCHANGED <<isInitialized, dbSet>>
          ELSE /\ isInitialized' = [isInitialized EXCEPT ![c] = ReadyOnEnd(adv.end)]
               /\ dbSet' = [dbSet EXCEPT ![c] = IF adv.end = "ok" THEN TRUE ELSE @]

\* handleMessage, case 'exec-finished' / 'exec-error'
OnExecReply(c, e) ==
    LET known == e.id \in DOMAIN awaitingRef[c]
        h == IF known THEN awaitingRef[c][e.id] ELSE 0
        fires == known /\ reqs[h].st = "pending"
        ok == e.type = "exec-finished"
        aw == IF known THEN MapDel(awaiting[c], e.id) ELSE awaiting[c]
        rq == IF fires
                 THEN [reqs EXCEPT ![h].st = IF ok THEN "resolved" ELSE "rejected",
                                   ![h].by = e.re]
                 ELSE reqs
        waiting == IF fires THEN {r \in DOMAIN runs : runs[r].wait = h} ELSE {}
    IN  IF waiting # {}
           THEN Resume(c, CHOOSE r \in waiting : TRUE, ok, e.rows, aw, rq)
           ELSE /\ reqs' = rq
                /\ awaiting' = [awaiting EXCEPT ![c] = aw]
                /\ UNCHANGED <<runs, toWorker, isInitialized, dbSet>>

\* handleMessage (607-666), with the continuations the settled promise runs
HandleMessage(c, e) ==
    CASE e.type = "init-finished" -> OnInitFinished(c)
      [] e.type = "init-error" ->
            /\ isInitialized' = [isInitialized EXCEPT ![c] = FALSE]
            /\ UNCHANGED <<dbSet, awaiting, runs, toWorker, reqs>>
      [] e.type \in {"exec-finished", "exec-error"} -> OnExecReply(c, e)
      [] OTHER -> UNCHANGED <<isInitialized, dbSet, awaiting, runs, toWorker, reqs>>

\* the port delivers the next message of the SharedWorker
PortDeliver(c) ==
    /\ c \in provMounted
    /\ toConn[c] # <<>>
    /\ HandleMessage(c, Head(toConn[c]))
    /\ toConn' = [toConn EXCEPT ![c] = Tail(@)]
    /\ UNCHANGED <<provMounted, awaitingRef, gen, resetSnap>>
    /\ UNCHANGED swVars
    /\ delivered' = IF Head(toConn[c]).type \in {"exec-finished", "exec-error"}
                       THEN delivered \cup {<<Head(toConn[c]).re, gen[c],
                                              awaitingRef[c] = awaiting[c]>>}
                       ELSE delivered
    /\ UNCHANGED <<envVars, ctxVars, muxVars, pageVars, dup>>

\* the port delivers a second time the response that settled promise h
Redeliver(c, h) ==
    /\ c \in provMounted
    /\ reqs[h].conn = c
    /\ reqs[h].by # 0
    /\ Cardinality(dup) < MaxDups
    /\ <<"port", h>> \notin dup
    /\ HandleMessage(c, Reply(IF reqs[h].st = "resolved" THEN "exec-finished"
                                                          ELSE "exec-error",
                              reqs[h].id, <<>>, reqs[h].by))
    /\ dup' = dup \cup {<<"port", h>>}
    /\ UNCHANGED <<provMounted, awaitingRef, gen, resetSnap, toConn, delivered>>
    /\ UNCHANGED swVars
    /\ UNCHANGED <<envVars, ctxVars, muxVars, pageVars>>

\* `await migrations[path]()` resumes: the script is split and its first
\* statement is sent
ScriptLoaded(r) ==
    /\ runs[r].pc = "script"
    /\ SendExec(runs[r].conn, "exec-all", StmtSql(runs[r].mi, 1),
                awaiting[runs[r].conn], reqs)
    /\ runs' = [runs EXCEPT ![r] = [@ EXCEPT !.pc = "stmt", !.si = 1,
                                             !.wait = Len(reqs) + 1]]
    /\ UNCHANGED <<provMounted, isInitialized, dbSet, awaitingRef, toConn, gen, resetSnap>>
    /\ UNCHANGED swVars
    /\ UNCHANGED <<envVars, ctxVars, muxVars, pageVars, delivered, dup>>

(***************************************************************************)
(* DatabaseProviders on the ports of the Multiplexer (shared-worker.ts     *)
(* 219-249) with the opfs worker behind it (drizzle/0000_adorable_lord_    *)
(* tyger.sql 10-125); the database file of the opfs worker is `store`      *)
(***************************************************************************)
\* sw.addEventListener('connect', ...): ports.add(port), install port.onmessage
MxConnect(c) ==
    /\ c \in provMounted
    /\ c \notin ports
    /\ ports' = ports \cup {c}
    /\ UNCHANGED <<opfsWorkerReady, messageQueue, portChan, workerInbox, workerOut,
                   portRecv, odb, initAwait, mounted, sentCount, preReady, posted,
                   booted>>
    /\ UNCHANGED <<fgVars, swVars, pageVars, ctxVars, envVars>>

\* the message as the Multiplexer passes it on; an init remembers the port it
\* came from (history, not part of the message)
Forwarded(c, m) == IF m.type = "init" THEN [m EXCEPT !.h = c] ELSE m

\* port.onmessage = (msg) => { if (opfsWorkerReady) post else queue }
MxPortOnMessage(c) ==
    /\ c \in ports
    /\ toWorker[c] # <<>>
    /\ toWorker' = [toWorker EXCEPT ![c] = Tail(@)]
    /\ IF opfsWorkerReady
          THEN /\ workerInbox' = Append(workerInbox, Forwarded(c, Head(toWorker[c])))
               /\ UNCHANGED messageQueue
          ELSE /\ messageQueue' = QueuePush(messageQueue, Forwarded(c, Head(toWorker[c])))
               /\ UNCHANGED workerInbox
    /\ UNCHANGED <<ports, opfsWorkerReady, portChan, workerOut, portRecv, odb, initAwait,
                   mounted, sentCount, preReady, posted, booted>>
    /\ UNCHANGED <<provMounted, isInitialized, dbSet, awaiting, awaitingRef, runs,
                   toConn, reqs, gen, resetSnap, delivered, dup>>
    /\ UNCHANGED <<swVars, pageVars, ctxVars, envVars>>

\* opfsWorker.onmessage = (e) => { flush on init-finished; fan out e.data }
MxWorkerOnMessage ==
    /\ workerOut # <<>>
    /\ workerOut' = Tail(workerOut)
    /\ IF Head(workerOut).type = "init-finished"
          THEN /\ opfsWorkerReady' = TRUE
               /\ workerInbox' = Flush(workerInbox, messageQueue)
               /\ messageQueue' = <<>>
          ELSE UNCHANGED <<opfsWorkerReady, workerInbox, messageQueue>>
    /\ toConn' = FanOut(toConn, ports, <<Head(workerOut)>>)
    /\ UNCHANGED <<ports, portChan, portRecv, odb, initAwait, mounted, sentCount,
                   preReady, posted, booted>>
    /\ UNCHANGED <<provMounted, isInitialized, dbSet, awaiting, awaitingRef, runs,
                   toWorker, reqs, gen, resetSnap, delivered, dup>>
    /\ UNCHANGED <<swVars, pageVars, ctxVars, envVars>>

\* self.onmessage, case 'init': the handler runs up to `await init(...)`;
\* every init starts one, whether or not the database is open already
MxOnInit ==
    /\ workerInbox # <<>>
    /\ Head(workerInbox).type = "init"
    /\ workerInbox' = Tail(workerInbox)
    /\ LET k == CHOOSE n \in 1..(Cardinality(initAwait) + 1) :
                     \A e \in initAwait : e[1] # n
       IN  initAwait' = initAwait \cup {<<k, Head(workerInbox)>>}
    /\ UNCHANGED <<ports, opfsWorkerReady, messageQueue, portChan, workerOut,
                   portRecv, odb, mounted, sentCount, preReady, posted, booted>>
    /\ UNCHANGED <<fgVars, swVars, pageVars, ctxVars, envVars>>

\* init() resumes: db opened anew, debug and init-finished posted; or it
\* throws and the outer catch posts {type: 'error'}
MxInitDone(e, ok) ==
    /\ e \in initAwait
    /\ initAwait' = initAwait \ {e}
    /\ IF ok
          THEN /\ odb' = "open"
               /\ store' = IF e[2].del THEN EmptyStore ELSE store
               /\ workerOut' = workerOut \o <<Reply("debug", 0, <<>>, e[2].h),
                                               Reply("init-finished", 0, <<>>, e[2].h)>>
          ELSE /\ workerOut' = Append(workerOut, Reply("error", 0, <<>>, e[2].h))
               /\ UNCHANGED <<odb, store>>
    /\ UNCHANGED <<ports, opfsWorkerReady, messageQueue, portChan, workerInbox,
                   portRecv, mounted, sentCount, preReady, posted, booted>>
    /\ UNCHANGED <<swPorts, swHandler, swDb, dbInitialized, initInProgress, initError,
                   swInitFrom, loadEmpty>>
    /\ UNCHANGED <<fgVars, pageVars, ctxVars, envVars>>

\* self.onmessage, case 'exec-all' / 'exec-get'
MxOnExec ==
    /\ workerInbox # <<>>
    /\ Head(workerInbox).type \in {"exec-all", "exec-get"}
    /\ workerInbox' = Tail(workerInbox)
    /\ LET m == Head(workerInbox) IN
          IF odb = "null" \/ SqlFails(m.sql, m.h, store)
             THEN /\ workerOut' = Append(workerOut, Reply("exec-error", m.id, <<>>, m.h))
                  /\ UNCHANGED <<store, loadEmpty>>
             ELSE /\ workerOut' = Append(workerOut,
                                         Reply("exec-finished", m.id,
                                               GetRows(m.type, SqlRows(m.sql, store)), m.h))
                  /\ store' = SqlEffect(m.sql, m.h, store)
                  /\ loadEmpty' = IF m.sql = LoadSql /\ store.recs = <<>>
                                     THEN loadEmpty \cup {m.h} ELSE loadEmpty
    /\ UNCHANGED <<ports, opfsWorkerReady, messageQueue, portChan, portRecv, odb,
                   initAwait, mounted, sentCount, preReady, posted, booted>>
    /\ UNCHANGED <<swPorts, swHandler, swDb, dbInitialized, initInProgress, initError,
                   swInitFrom>>
    /\ UNCHANGED <<fgVars, pageVars, ctxVars, envVars>>

\* Environment: the init handshake of the opfs worker is started from
\* outside the Multiplexer's queue
MxHandshake ==
    /\ ~booted
    /\ booted' = TRUE
    /\ workerInbox' = Append(workerInbox, InitMsg(FALSE))
    /\ UNCHANGED <<ports, opfsWorkerReady, messageQueue, portChan, workerOut,
                   portRecv, odb, initAwait, mounted, sentCount, preReady, posted>>
    /\ UNCHANGED <<fgVars, swVars, pageVars, ctxVars, envVars>>

(***************************************************************************)
(* Module-level connection of sqlite.ts 1-419 with its dedicated worker    *)
(* (sqlite-worker.ts)                                                      *)
(***************************************************************************)
\* {type: 'init', payload: {filename}}
InitA(f) == [type |-> "init", id |-> 0, sql |-> NoSql, h |-> 0, file |-> f]
\* customProxy: {type: 'exec', payload: {id, sql, params}}; h names the promise
ExecA(id, q, h) == [type |-> "exec", id |-> id, sql |-> q, h |-> h, file |-> "none"]
\* a message of the worker; ni: the error text is 'Database not initialized'
ReplyANoText(t, id, rows, re, ni) == [type |-> t, id |-> id, rows |-> rows, re |-> re, ni |-> FALSE]
ReplyA(t, id, rows, re, ni) == [type |-> t, id |-> id, rows |-> rows, re |-> re, ni |-> ni]

\* the file the worker's `db` is open on (the reset's file while it is null)
OpenFile == IF wDb = "main" THEN fileMain ELSE fileNew

\* the module-level state of the page as one value
PageState ==
    [aw |-> mAwaiting, rq |-> mReqs, runs |-> mRuns, calls |-> mCalls, inits |-> mInits,
     ready |-> mIsInitialized, ir |-> initResolve, inbox |-> wInbox, on |-> onmessage,
     w |-> worker]

PageSet(S) ==
    /\ mAwaiting' = S.aw
    /\ mReqs' = S.rq
    /\ mRuns' = S.runs
    /\ mCalls' = S.calls
    /\ mInits' = S.inits
    /\ mIsInitialized' = S.ready
    /\ initResolve' = S.ir
    /\ wInbox' = S.inbox
    /\ onmessage' = S.on
    /\ worker' = S.w

\* customProxy (73-85): register the promise under a fresh id, post the request
customProxy(S, q) ==
    LET h == Len(S.rq) + 1
        id == uuid(h)
    IN  [S EXCEPT !.rq = Append(@, [id |-> id, q |-> q, st |-> "pending", by |-> 0,
                                    w |-> S.w]),
                  !.aw = MapPut(@, id, h),
                  !.inbox = Append(@, ExecA(id, q, h))]

\* initializeSQLite (215-252), awaited by reset call k
initializeSQLite(S, k) ==
    [S EXCEPT !.inits = Append(@, [st |-> "pending", timer |-> TRUE, call |-> k]),
              !.ir = Len(S.inits) + 1,
              !.inbox = Append(@, InitA("main")),
              !.calls[k].pc = "reinit"]

\* the promise of initializeSQLite call i settles: .then sets isInitialized,
\* .catch rethrows into the reset call that awaits it
SettleInitAgain(S, i, ok) ==
    [S EXCEPT !.inits[i].st = IF ok THEN "resolved" ELSE "rejected",
              !.ready = IF ok THEN TRUE ELSE @,
              !.calls[S.inits[i].call].pc = "done"]
SettleInit(S, i, ok) ==
    IF S.inits[i].st # "pending" THEN S
    ELSE [S EXCEPT !.inits[i].st = IF ok THEN "resolved" ELSE "rejected",
                   !.ready = IF ok THEN TRUE ELSE @,
                   !.calls[S.inits[i].call].pc = "done"]

\* a runMigrations() call of the page, suspended at ensureMigrationsTable;
\* owner: the reset call (373) or the initializeSQLite call (44) that awaits it
NewRunA(owner, h) ==
    [conn |-> 0, pc |-> "ensure", applied |-> {}, fresh |-> FALSE, mi |-> 0, si |-> 0,
     wait |-> h, loadH |-> 0, seeded |-> FALSE, doneGen |-> 0, owner |-> owner,
     \* the requests the run has sent so far, in order
     hist |-> <<h>>]

\* runMigrations() returned (end = "ok") or threw
EndRun(S, r, end) ==
    LET o == S.runs[r].owner IN
    IF o.kind = "reset"
       THEN IF end = "ok"
               \* 375-398: db = newDb; isInitialized = true
               THEN [S EXCEPT !.ready = TRUE, !.calls[o.n].pc = "done"]
               \* 402-406: catch, await initializeSQLite()
               ELSE initializeSQLite(S, o.n)
       \* 44: runMigrations().then(initResolve).catch(initReject)
       ELSE SettleInit(S, o.n, end = "ok")

StartRun(S, owner) ==
    [customProxy(S, EnsureSql) EXCEPT !.runs = Append(@, NewRunA(owner, Len(S.rq) + 1))]

\* getAppliedMigrations (183-198) catches a failing query and returns []
AdvanceA(run, ok, rows) ==
    IF run.pc = "load" /\ ~ok
       THEN NextScript([run EXCEPT !.applied = {}, !.fresh = IsFreshDatabase(<<>>)], 0)
       ELSE Advance(run, ok, rows)

\* the run that awaits promise h, if any, resumes with its outcome
ResumeA(S, h, ok, rows) ==
    LET waiting == {r \in DOMAIN S.runs : S.runs[r].wait = h} IN
    IF waiting = {} THEN S
    ELSE LET r == CHOOSE x \in waiting : TRUE
             adv == AdvanceA(S.runs[r], ok, rows)
         IN  IF adv.send # NoSql
                THEN [customProxy(S, adv.send) EXCEPT
                         !.runs[r] = [adv.run EXCEPT
                             !.wait = Len(S.rq) + 1,
                             !.hist = Append(@, Len(S.rq) + 1),
                             !.loadH = IF adv.send = LoadSql THEN Len(S.rq) + 1 ELSE @]]
                ELSE IF adv.end = "none"
                        THEN [S EXCEPT !.runs[r] = adv.run]
                        ELSE EndRun([S EXCEPT !.runs[r] = adv.run], r, adv.end)

\* the continuations of the promises rejected by a reset, in rejection order
RECURSIVE ResumeAll(_, _)
ResumeAll(S, hs) ==
    IF hs = {} THEN S
    ELSE LET h == CHOOSE x \in hs : \A y \in hs : x <= y
         IN  ResumeAll(ResumeA(S, h, FALSE, <<>>), hs \ {h})

PageInit ==
    /\ worker = 0
    /\ wInbox = <<>>
    /\ wOut = <<>>
    /\ wDb = "null"
    /\ wPend = <<>>
    /\ fileMain = EmptyStore
    /\ fileNew = EmptyStore
    /\ mAwaiting = EmptyMap
    /\ mReqs = <<>>
    /\ mRuns = <<>>
    /\ mIsInitialized = FALSE
    /\ initResolve = 0
    /\ mInits = <<>>
    /\ onmessage = <<>>
    /\ mCalls = <<>>
    /\ mLoadEmpty = {}

\* history: the load requests of hs not recorded yet are recorded against the open file
LoadSeen(h) == \E b \in BOOLEAN : <<h, b>> \in mLoadEmpty
RecordLoads(hs) ==
    mLoadEmpty \cup {<<h, OpenFile.recs = <<>> >> :
                        h \in {x \in hs : mReqs[x].q = LoadSql /\ ~LoadSeen(x)}}

\* a component calls getDb().insert(...) / .select(...)
PageQueries == {WriteSql, ReadSql}
NumPageQueries == Cardinality({h \in DOMAIN mReqs : mReqs[h].q.k \in {"write", "read"}})
PageQuery(q) ==
    /\ NumPageQueries < MaxQueries
    /\ Len(mReqs) < MaxReqs
    /\ PageSet(customProxy(PageState, q))
    /\ UNCHANGED <<wOut, wDb, wPend, fileMain, fileNew, mLoadEmpty>>
    /\ UNCHANGED <<envVars, ctxVars, muxVars, fgVars, swVars>>

\* window.resetDatabase (299-370), up to its first await, and the
\* continuations of the promises it rejected
PageReset ==
    LET S == PageState
        k == Len(mCalls) + 1
        rejected == {mAwaiting[id] : id \in DOMAIN mAwaiting}
        S1 == [S EXCEPT !.ready = FALSE,
                        !.ir = 0,
                        !.rq = [h \in DOMAIN @ |->
                                  IF h \in rejected THEN [@[h] EXCEPT !.st = "rejected"]
                                                    ELSE @[h]],
                        !.aw = EmptyMap,
                        !.w = @ + 1,
                        !.inbox = <<InitA("new")>>,
                        !.calls = Append(@, [pc |-> "wait", timer |-> TRUE]),
                        !.on = <<k>> \o @]
        S2 == ResumeAll(S1, rejected)
    IN  /\ Len(mCalls) < MaxPageResets
        /\ Len(S2.rq) <= MaxReqs
        /\ PageSet(S2)
        /\ wOut' = <<>>
        /\ wDb' = "null"
        /\ wPend' = <<>>
        /\ fileNew' = EmptyStore
        /\ mLoadEmpty' = RecordLoads(rejected)
        /\ UNCHANGED fileMain
        /\ UNCHANGED <<envVars, ctxVars, muxVars, fgVars, swVars>>

\* the 10 s timer of reset call k fires before it was cleared (346-350)
ResetTimeout(k) ==
    LET S == [PageState EXCEPT !.calls[k].timer = FALSE] IN
    /\ mCalls[k].timer
    /\ PageSet(IF mCalls[k].pc = "wait" THEN initializeSQLite(S, k) ELSE S)
    /\ UNCHANGED <<wOut, wDb, wPend, fileMain, fileNew, mLoadEmpty>>
    /\ UNCHANGED <<envVars, ctxVars, muxVars, fgVars, swVars>>

\* the 10 s timer of initializeSQLite call i fires (230-238)
\* 230-237: reject(timeoutError); a promise settled before stays as it is
RejectByTimeout(S, i) ==
    IF S.inits[i].st = "pending"
       THEN [SettleInit(S, i, FALSE) EXCEPT !.inits[i].st = "timedout"]
       ELSE S

InitTimeout(i) ==
    LET S == [PageState EXCEPT !.inits[i].timer = FALSE] IN
    /\ mInits[i].timer
    /\ PageSet(IF ~mIsInitialized THEN RejectByTimeout(S, i) ELSE S)
    /\ UNCHANGED <<wOut, wDb, wPend, fileMain, fileNew, mLoadEmpty>>
    /\ UNCHANGED <<envVars, ctxVars, muxVars, fgVars, swVars>>

\* worker.onmessage (29-71) handles e
ModuleHandler(S, e) ==
    CASE e.type = "init-finished" ->
            IF S.ir # 0 THEN StartRun(S, [kind |-> "init", n |-> S.ir]) ELSE S
      [] e.type \in {"exec-finished", "exec-error"} ->
            IF e.id \in DOMAIN S.aw
               THEN LET h == S.aw[e.id]
                        ok == e.type = "exec-finished"
                    IN  ResumeA([S EXCEPT !.rq[h].st = IF ok THEN "resolved" ELSE "rejected",
                                          !.rq[h].by = e.re,
                                          !.aw = MapDel(@, e.id)],
                                h, ok, e.rows)
               ELSE S
      [] OTHER -> S

\* tempHandler of reset call k (353-368) handles e
TempHandler(S, k, e) ==
    IF e.type = "init-finished"
       THEN LET S1 == [S EXCEPT !.on = Tail(@), !.calls[k].timer = FALSE] IN
            IF S.calls[k].pc = "wait"
               THEN StartRun([S1 EXCEPT !.calls[k].pc = "migrate"], [kind |-> "reset", n |-> k])
               ELSE S1
    ELSE IF e.type = "exec-error" /\ e.ni
       THEN LET S1 == [S EXCEPT !.on = Tail(@), !.calls[k].timer = FALSE] IN
            IF S.calls[k].pc = "wait" THEN initializeSQLite(S1, k) ELSE S1
    ELSE ModuleHandler(S, e)

\* the page handles the next message of its worker
PageDeliver ==
    LET e == Head(wOut)
        S == PageState
        S2 == IF onmessage = <<>> THEN ModuleHandler(S, e)
                                  ELSE TempHandler(S, Head(onmessage), e)
    IN  /\ wOut # <<>>
        /\ Len(S2.rq) <= MaxReqs
        /\ PageSet(S2)
        /\ wOut' = Tail(wOut)
        /\ UNCHANGED <<wDb, wPend, fileMain, fileNew, mLoadEmpty>>
        /\ UNCHANGED <<envVars, ctxVars, muxVars, fgVars, swVars>>

\* the worker's message that settled promise h is delivered a second time
PageRedeliver(h) ==
    LET e == ReplyA(IF mReqs[h].st = "resolved" THEN "exec-finished" ELSE "exec-error",
                    mReqs[h].id, <<>>, mReqs[h].by, FALSE)
        S == PageState
        S2 == IF onmessage = <<>> THEN ModuleHandler(S, e)
                                  ELSE TempHandler(S, Head(onmessage), e)
    IN  /\ mReqs[h].by # 0
        /\ Cardinality(dup) < MaxDups
        /\ <<"page", h>> \notin dup
        /\ PageSet(S2)
        /\ dup' = dup \cup {<<"page", h>>}
        /\ UNCHANGED <<wOut, wDb, wPend, fileMain, fileNew, mLoadEmpty>>
        /\ UNCHANGED <<envVars, ctxVars, muxVars, swVars>>
        /\ UNCHANGED <<provMounted, isInitialized, dbSet, awaiting, awaitingRef, runs,
                       toWorker, toConn, reqs, gen, resetSnap, delivered>>

\* `await migrations[path]()` resumes in run r
PageScriptLoaded(r) ==
    LET S == customProxy(PageState, StmtSql(mRuns[r].mi, 1)) IN
    /\ mRuns[r].pc = "script"
    /\ Len(mReqs) < MaxReqs
    /\ PageSet([S EXCEPT !.runs[r] = [@ EXCEPT !.pc = "stmt", !.si = 1,
                                               !.wait = Len(mReqs) + 1,
                                               !.hist = Append(@, Len(mReqs) + 1)]])
    /\ UNCHANGED <<wOut, wDb, wPend, fileMain, fileNew, mLoadEmpty>>
    /\ UNCHANGED <<envVars, ctxVars, muxVars, fgVars, swVars>>

(***************************************************************************)
(* sqlite-worker.ts                                                        *)
(***************************************************************************)
\* self.onmessage, case 'init': suspended in `await init(filename)`
WOnInit ==
    /\ wInbox # <<>>
    /\ Head(wInbox).type = "init"
    /\ wInbox' = Tail(wInbox)
    /\ wPend' = Append(wPend, Head(wInbox).file)
    /\ UNCHANGED <<worker, wOut, wDb, fileMain, fileNew, mAwaiting, mReqs, mRuns,
                   mIsInitialized, initResolve, mInits, onmessage, mCalls, mLoadEmpty>>
    /\ UNCHANGED <<envVars, ctxVars, muxVars, fgVars, swVars>>

\* init resumes: db is set and init-finished posted, or init threw and the
\* outer catch only logs
WInitDone(ok) ==
    /\ wPend # <<>>
    /\ wPend' = Tail(wPend)
    /\ IF ok
          THEN /\ wDb' = Head(wPend)
               /\ wOut' = Append(wOut, ReplyA("init-finished", 0, <<>>, 0, FALSE))
          ELSE UNCHANGED <<wDb, wOut>>
    /\ UNCHANGED <<worker, wInbox, fileMain, fileNew, mAwaiting, mReqs, mRuns,
                   mIsInitialized, initResolve, mInits, onmessage, mCalls, mLoadEmpty>>
    /\ UNCHANGED <<envVars, ctxVars, muxVars, fgVars, swVars>>

\* self.onmessage, case 'exec' re-dispatched as 'exec-all'
\* case 'exec': msg.data.type = 'exec-all'; self.onmessage?.(msg)
RedispatchAsGet(m) == IF m.type = "exec" THEN [m EXCEPT !.type = "exec-get"] ELSE m
Redispatch(m) == IF m.type = "exec" THEN [m EXCEPT !.type = "exec-all"] ELSE m

\* the one response of the handler to a request: case 'exec-all' (rows as
\* any[][]), case 'exec-get' (first row or null), case 'exec' re-dispatched
WReply(m, db, st) ==
    LET r == Redispatch(m) IN
    IF db = "null" THEN ReplyA("exec-error", r.id, <<>>, r.h, TRUE)
    ELSE IF SqlFails(r.sql, r.h, st) THEN ReplyA("exec-error", r.id, <<>>, r.h, FALSE)
    ELSE ReplyA("exec-finished", r.id, GetRows(r.type, SqlRows(r.sql, st)), r.h, FALSE)

WOnExec ==
    LET m == Head(wInbox) IN
    /\ wInbox # <<>>
    /\ m.type = "exec"
    /\ wInbox' = Tail(wInbox)
    /\ mLoadEmpty' = RecordLoads({m.h})
    /\ wOut' = Append(wOut, WReply(m, wDb, OpenFile))
    /\ IF wDb = "null" \/ SqlFails(m.sql, m.h, OpenFile)
          THEN UNCHANGED <<fileMain, fileNew>>
          ELSE /\ fileMain' = IF wDb = "main" THEN SqlEffect(m.sql, m.h, fileMain)
                                              ELSE fileMain
               /\ fileNew' = IF wDb = "new" THEN SqlEffect(m.sql, m.h, fileNew)
                                            ELSE fileNew
    /\ UNCHANGED <<worker, wDb, wPend, mAwaiting, mReqs, mRuns, mIsInitialized,
                   initResolve, mInits, onmessage, mCalls>>
    /\ UNCHANGED <<envVars, ctxVars, muxVars, fgVars, swVars>>

NextPage ==
    \/ \E q \in PageQueries : PageQuery(q)
    \/ PageReset
    \/ \E k \in DOMAIN mCalls : ResetTimeout(k)
    \/ \E i \in DOMAIN mInits : InitTimeout(i)
    \/ PageDeliver
    \/ \E r \in DOMAIN mRuns : PageScriptLoaded(r)
    \/ WOnInit
    \/ \E ok \in BOOLEAN : WInitDone(ok)
    \/ WOnExec

(***************************************************************************)
(* DatabaseProvider of database-context.tsx with its dedicated worker      *)
(* (sqlite-worker.ts). resetDatabase is called with the worker of the last *)
(* render (the closure the effect at 438-443 has assigned to window).      *)
(***************************************************************************)
\* the provider's state as one value
CxState ==
    [aw |-> cxAwaiting, rq |-> cxReqs, runs |-> cxRuns, ready |-> cxIsInitialized,
     db |-> cxDb, inbox |-> cxInbox]

CxSet(S) ==
    /\ cxAwaiting' = S.aw
    /\ cxReqs' = S.rq
    /\ cxRuns' = S.runs
    /\ cxIsInitialized' = S.ready
    /\ cxDb' = S.db
    /\ cxInbox' = S.inbox

\* currentWorker.postMessage: a terminated worker receives nothing
CxPost(S, w, msg) == IF w = cxWorker THEN [S EXCEPT !.inbox = Append(@, msg)] ELSE S

\* executeQuery (235-262) of run r on worker w: a temporary 'message' listener
\* settles the promise; the pending map is not used
CxExecuteQuery(S, w, r, q) ==
    LET h == Len(S.rq) + 1
        id == uuid(h)
    IN  CxPost([S EXCEPT !.rq = Append(@, [id |-> id, q |-> q, t |-> "exec-all",
                                           st |-> "pending", by |-> 0, w |-> w,
                                           run |-> r, via |-> "listener"])],
               w, ExecMsg("exec-all", id, q, h))

\* the proxy of createCustomProxy(w) (144-170): setAwaiting, then postMessage
CxProxy(S, w, r, t, q) ==
    LET h == Len(S.rq) + 1
        id == uuid(h)
    IN  CxPost([S EXCEPT !.rq = Append(@, [id |-> id, q |-> q, t |-> t,
                                           st |-> "pending", by |-> 0, w |-> w,
                                           run |-> r, via |-> "map"]),
                         !.aw = MapPut(@, id, h)],
               w, ExecMsg(t, id, q, h))

\* a runMigrations(w) call, suspended at ensureMigrationsTable
CxNewRun(w, h) ==
    [pc |-> "ensure", applied |-> {}, fresh |-> FALSE, mi |-> 0, si |-> 0, wait |-> h,
     loadH |-> 0, seeded |-> FALSE, doneGen |-> 0, w |-> w]

\* case 'init-finished' (63-101): runMigrations(newWorker) runs to its first await
CxOnInitFinished(S) ==
    [CxExecuteQuery(S, cxWorker, Len(S.runs) + 1, EnsureSql) EXCEPT
        !.runs = Append(@, CxNewRun(cxWorker, Len(S.rq) + 1))]

\* promise h, awaited by run r, settles: runMigrations (172-233) goes on, or
\* the .then / .catch of 76-100 run
CxResume(S, r, h, ok, rows) ==
    LET run == S.runs[r]
        adv == AdvanceA(run, ok, rows)
    IN  IF run.pc = "test"
           \* the test query settled: setIsInitialized(true) or (false)
           THEN [S EXCEPT !.runs[r].pc = IF ok THEN "done" ELSE "untested",
                          !.runs[r].wait = 0,
                          !.ready = ok]
        ELSE IF adv.send # NoSql
           THEN [CxExecuteQuery(S, run.w, r, adv.send) EXCEPT
                    !.runs[r] = [adv.run EXCEPT
                        !.wait = Len(S.rq) + 1,
                        !.loadH = IF adv.send = LoadSql THEN Len(S.rq) + 1 ELSE @]]
        ELSE IF adv.end = "none"
           THEN [S EXCEPT !.runs[r] = adv.run]
        ELSE IF adv.end = "ok"
           \* .then: setDb(newDb); await newDb.select().from(ingredients).limit(1)
           THEN [CxProxy([S EXCEPT !.db = run.w], run.w, r, "exec-all", ReadSql) EXCEPT
                    !.runs[r] = [adv.run EXCEPT !.pc = "test", !.wait = Len(S.rq) + 1]]
           \* .catch: setIsInitialized(false)
           ELSE [S EXCEPT !.runs[r] = adv.run, !.ready = FALSE]

\* the promise h settles and the run that awaits it, if any, resumes
CxSettle(S, h, e) ==
    LET ok == e.type = "exec-finished"
        S1 == [S EXCEPT !.rq[h].st = IF ok THEN "resolved" ELSE "rejected",
                        !.rq[h].by = e.re]
        waiting == {r \in DOMAIN S.runs : S.runs[r].wait = h}
    IN  IF waiting = {} THEN S1
        ELSE CxResume(S1, CHOOSE r \in waiting : TRUE, h, ok, e.rows)

\* newWorker.onmessage, case 'exec-finished' / 'exec-error' (103-134)
CxOnMessage(S, e) ==
    LET known == e.id \in DOMAIN cxAwaitingRef
        h == IF known THEN cxAwaitingRef[e.id] ELSE 0
        S1 == IF known THEN [S EXCEPT !.aw = MapDel(@, e.id)] ELSE S
    IN  IF known /\ S.rq[h].st = "pending" THEN CxSettle(S1, h, e) ELSE S1

\* the tempHandler of the executeQuery call with this id (242-251), if one is
\* registered on the worker
CxListener(S, e) ==
    LET hs == {h \in DOMAIN S.rq : /\ S.rq[h].via = "listener"
                                   /\ S.rq[h].st = "pending"
                                   /\ S.rq[h].w = cxWorker
                                   /\ S.rq[h].id = e.id}
    IN  IF hs = {} THEN S ELSE CxSettle(S, CHOOSE h \in hs : TRUE, e)

CxInit ==
    /\ cxWorker = 0
    /\ cxInbox = <<>>
    /\ cxOut = <<>>
    /\ cxWDb = "null"
    /\ cxWInit = "none"
    /\ cxFile = EmptyStore
    /\ cxDb = 0
    /\ cxIsInitialized = FALSE
    /\ cxAwaiting = EmptyMap
    /\ cxAwaitingRef = EmptyMap
    /\ cxRuns = <<>>
    /\ cxReqs = <<>>
    /\ cxFaults = 0
    /\ cxStmts = 0

\* mount effect (420-426): initializeDatabase() creates the worker and posts init
CxMount ==
    /\ cxWorker = 0
    /\ cxWorker' = 1
    /\ cxInbox' = <<InitMsg(FALSE)>>
    /\ UNCHANGED <<cxOut, cxWDb, cxWInit, cxFile, cxDb, cxIsInitialized, cxAwaiting,
                   cxAwaitingRef, cxRuns, cxReqs, cxFaults, cxStmts>>
    /\ UNCHANGED <<envVars, muxVars, fgVars, swVars, pageVars>>

\* React re-renders the provider: awaitingRef.current = awaiting
CxRender ==
    /\ cxAwaitingRef # cxAwaiting
    /\ cxAwaitingRef' = cxAwaiting
    /\ UNCHANGED <<cxWorker, cxInbox, cxOut, cxWDb, cxWInit, cxFile, cxDb,
                   cxIsInitialized, cxAwaiting, cxRuns, cxReqs, cxFaults, cxStmts>>
    /\ UNCHANGED <<envVars, muxVars, fgVars, swVars, pageVars>>

\* a 'message' event of the worker: onmessage, then the registered listeners
CxDeliver ==
    LET e == Head(cxOut) IN
    /\ cxOut # <<>>
    /\ cxOut' = Tail(cxOut)
    /\ CxSet(IF e.type = "init-finished"
                THEN CxOnInitFinished(CxState)
                ELSE CxListener(CxOnMessage(CxState, e), e))
    /\ Len(cxReqs') <= MaxCxReqs
    /\ UNCHANGED <<cxWorker, cxWDb, cxWInit, cxFile, cxAwaitingRef, cxFaults, cxStmts>>
    /\ UNCHANGED <<envVars, muxVars, fgVars, swVars, pageVars>>

\* `await migrations[path]()` resumes: the script is split and its first
\* statement is sent
CxScriptLoaded(r) ==
    /\ cxRuns[r].pc = "script"
    /\ Len(cxReqs) < MaxCxReqs
    /\ CxSet([CxExecuteQuery(CxState, cxRuns[r].w, r, StmtSql(cxRuns[r].mi, 1)) EXCEPT
                 !.runs[r] = [@ EXCEPT !.pc = "stmt", !.si = 1,
                                       !.wait = Len(cxReqs) + 1]])
    /\ UNCHANGED <<cxWorker, cxOut, cxWDb, cxWInit, cxFile, cxAwaitingRef, cxFaults, cxStmts>>
    /\ UNCHANGED <<envVars, muxVars, fgVars, swVars, pageVars>>

\* a component calls db.insert(...) / db.select(...) through the context
NumCxQueries == Cardinality({h \in DOMAIN cxReqs : cxReqs[h].run = 0})
CxQuery(tq) ==
    /\ cxDb # 0
    /\ NumCxQueries < MaxCxQueries
    /\ Len(cxReqs) < MaxCxReqs
    /\ CxSet(CxProxy(CxState, cxDb, 0, tq[1], tq[2]))
    /\ UNCHANGED <<cxWorker, cxOut, cxWDb, cxWInit, cxFile, cxAwaitingRef, cxFaults, cxStmts>>
    /\ UNCHANGED <<envVars, muxVars, fgVars, swVars, pageVars>>

\* resetDatabase (380-418): terminate the worker, clear the state, create a
\* worker on a new file, post init, setDb(newDb)
CxReset ==
    /\ cxWorker # 0
    /\ cxWorker <= MaxCxResets
    /\ cxWorker' = cxWorker + 1
    /\ cxInbox' = <<InitMsg(FALSE)>>
    /\ cxOut' = <<>>
    /\ cxWDb' = "null"
    /\ cxWInit' = "none"
    /\ cxFile' = EmptyStore
    /\ cxIsInitialized' = FALSE
    /\ cxAwaiting' = EmptyMap
    /\ cxDb' = cxWorker + 1
    /\ cxStmts' = 0
    /\ UNCHANGED <<cxAwaitingRef, cxRuns, cxReqs, cxFaults>>
    /\ UNCHANGED <<envVars, muxVars, fgVars, swVars, pageVars>>

\* sqlite-worker.ts self.onmessage, case 'init': suspended in `await init(filename)`
CxWOnInit ==
    /\ cxInbox # <<>>
    /\ Head(cxInbox).type = "init"
    /\ cxInbox' = Tail(cxInbox)
    /\ cxWInit' = "pending"
    /\ UNCHANGED <<cxWorker, cxOut, cxWDb, cxFile, cxDb, cxIsInitialized, cxAwaiting,
                   cxAwaitingRef, cxRuns, cxReqs, cxFaults, cxStmts>>
    /\ UNCHANGED <<envVars, muxVars, fgVars, swVars, pageVars>>

\* init resumes: db is set and init-finished posted, or init threw and the
\* outer catch only logs
CxWInitDone(ok) ==
    /\ cxWInit = "pending"
    /\ cxWInit' = IF ok THEN "done" ELSE "failed"
    /\ cxWDb' = IF ok THEN "open" ELSE cxWDb
    /\ cxOut' = IF ok THEN Append(cxOut, Reply("init-finished", 0, <<>>, 0)) ELSE cxOut
    /\ UNCHANGED <<cxWorker, cxInbox, cxFile, cxDb, cxIsInitialized, cxAwaiting,
                   cxAwaitingRef, cxRuns, cxReqs, cxFaults, cxStmts>>
    /\ UNCHANGED <<envVars, muxVars, fgVars, swVars, pageVars>>

\* where a failing statement throws: db.prepare() for an error of the schema
\* (no such table, object already exists), stmt.step() for a violated UNIQUE
\* constraint (a recorded name, a seeded title)
ThrowsInStep(q, st) ==
    CASE q.k = "mark" -> st.mt /\ q.m \in Range(st.recs)
      [] q.k = "seed" -> TableObj \in st.objs
      [] OTHER        -> FALSE

\* try { stmt = db.prepare(sql); ...; stmt.step(); stmt.finalize(); post }
\* catch (e) { post exec-error }: the statements left open by one Execute
LeftOpen(failed, inStep) == IF failed /\ inStep THEN 1 ELSE 0

\* self.onmessage, case 'exec-all' / 'exec-get'; fault: stmt.step() throws
\* for a reason of the engine's own (I/O error, disk full)
CxWOnExec(fault) ==
    LET m == Head(cxInbox) IN
    /\ cxInbox # <<>>
    /\ m.type \in {"exec-all", "exec-get"}
    /\ fault => /\ cxFaults < MaxFaults
                /\ cxWDb # "null"
                /\ ~SqlFails(m.sql, m.h, cxFile)
    /\ cxInbox' = Tail(cxInbox)
    /\ cxFaults' = IF fault THEN cxFaults + 1 ELSE cxFaults
    /\ cxStmts' = IF cxWDb = "null" THEN cxStmts
                  ELSE cxStmts + LeftOpen(fault \/ SqlFails(m.sql, m.h, cxFile),
                                          fault \/ ThrowsInStep(m.sql, cxFile))
    /\ IF cxWDb = "null" \/ fault \/ SqlFails(m.sql, m.h, cxFile)
          THEN /\ cxOut' = Append(cxOut, Reply("exec-error", m.id, <<>>, m.h))
               /\ UNCHANGED cxFile
          ELSE /\ cxOut' = Append(cxOut, Reply("exec-finished", m.id,
                                               GetRows(m.type, SqlRows(m.sql, cxFile)), m.h))
               /\ cxFile' = SqlEffect(m.sql, m.h, cxFile)
    /\ UNCHANGED <<cxWorker, cxWDb, cxWInit, cxDb, cxIsInitialized, cxAwaiting,
                   cxAwaitingRef, cxRuns, cxReqs>>
    /\ UNCHANGED <<envVars, muxVars, fgVars, swVars, pageVars>>

NextCtx ==
    \/ CxMount
    \/ CxRender
    \/ CxDeliver
    \/ \E r \in DOMAIN cxRuns : CxScriptLoaded(r)
    \/ \E tq \in UserQueries : CxQuery(tq)
    \/ CxReset
    \/ CxWOnInit
    \/ \E ok \in BOOLEAN : CxWInitDone(ok)
    \/ \E fault \in BOOLEAN : CxWOnExec(fault)

(***************************************************************************)
(* Specifications                                                          *)
(***************************************************************************)
InitSys == ProvInit /\ SwInit /\ PageInit /\ CxInit
\* the state after every module has been loaded
(***************************************************************************)
(* init and start of the Backends under a storage environment:             *)
(* shared-worker.ts 174-217, drizzle/0000_adorable_lord_tyger.sql 15-74,   *)
(* sqlite-worker.ts 12-26 and 164-194                                      *)
(***************************************************************************)
Backends == {"shared", "opfs", "dedicated"}
Envs == [opfs : BOOLEAN, sync : BOOLEAN, async : BOOLEAN, mem : BOOLEAN]

\* start of shared-worker.ts and of the opfs worker: new OpfsDb(file) when
\* OpfsDb exists, else new DB(file, 'ct'); a throw of either is caught and
\* logged and new DB(file, 'ct') is tried (again)
StartWithFallback(env) ==
    IF env.opfs /\ env.sync THEN "durable"
    ELSE IF env.mem THEN "transient"
    ELSE "throw"

\* start of sqlite-worker.ts: with OPFS, new OpfsDb(file, 'ct', 'opfs') and in
\* its catch new OpfsDb(file, 'ct', 'opfs-async'); without OPFS
\* new DB(file, 'ct'); the outer catch logs and rethrows
StartRetry(env) ==
    IF env.opfs
       THEN IF env.sync \/ env.async THEN "durable" ELSE "throw"
       ELSE IF env.mem THEN "transient" ELSE "throw"

start(b, env) == IF b = "dedicated" THEN StartRetry(env) ELSE StartWithFallback(env)

\* payload.opfs of init-finished: !!sqlite3.oo1.OpfsDb in the SharedWorker and
\* the opfs worker, 'opfs' in sqlite3 in the dedicated worker; both say that
\* the OPFS VFS is installed
OpfsFlag(b, env) == env.opfs

\* a message a Backend posts; opfs is the payload's flag of an init-finished
StMsg(t, flag) == [type |-> t, opfs |-> flag]

\* what the init handler posts when init() has returned / has thrown
InitReplies(b, opened, env) ==
    IF opened
       THEN IF b = "dedicated"
               THEN <<StMsg("init-finished", OpfsFlag(b, env))>>
               ELSE <<StMsg("debug", FALSE), StMsg("init-finished", OpfsFlag(b, env))>>
       ELSE CASE b = "shared"    -> <<StMsg("init-error", FALSE)>>
              [] b = "opfs"      -> <<StMsg("error", FALSE)>>
              [] b = "dedicated" -> <<>>

\* the other specifications take the outcome of init() as an input of their
\* init actions and leave the storage environment unobserved
OpenIdle ==
    /\ stPc = [b \in Backends |-> "idle"]
    /\ stDb = [b \in Backends |-> "null"]
    /\ stOut = [b \in Backends |-> <<>>]
    /\ stSeen = [b \in Backends |-> 0]
    /\ stConn = [b \in Backends |-> "connecting"]

\* case 'init': the handler is suspended in `await init(filename)`
StOnInit(b) ==
    /\ stPc[b] = "idle"
    /\ stPc' = [stPc EXCEPT ![b] = "init"]
    /\ UNCHANGED <<stEnv, stDb, stOut, stSeen, stConn, migrations, loopVars, muxVars,
                   fgVars, swVars, pageVars, ctxVars>>

\* init() returns the handle start() opened, or throws what start() threw
StInitDone(b) ==
    LET opened == start(b, stEnv) IN
    /\ stPc[b] = "init"
    /\ stPc' = [stPc EXCEPT ![b] = "done"]
    /\ stDb' = [stDb EXCEPT ![b] = IF opened = "throw" THEN @ ELSE opened]
    /\ stOut' = [stOut EXCEPT ![b] = @ \o InitReplies(b, opened # "throw", stEnv)]
    /\ UNCHANGED <<stEnv, stSeen, stConn, migrations, loopVars, muxVars, fgVars,
                   swVars, pageVars, ctxVars>>

\* the foreground's message handler: handleMessage of the shared-worker
\* provider (sqlite.ts 607-666) behind the SharedWorker and, through the
\* Multiplexer's fan-out, behind the opfs worker; worker.onmessage of
\* database-context.tsx (59-138) behind the dedicated worker. init-finished
\* starts the migration run, init-error is handled by the shared-worker
\* provider only, and no handler has a case for 'error' or, behind the
\* dedicated worker, for 'debug' or 'init-error'.
OnBackendMessage(b, conn, t) ==
    CASE t = "init-finished" -> "migrating"
      [] t = "init-error" /\ b # "dedicated" -> "failed"
      [] OTHER -> conn

\* the next message of Backend b is delivered to its foreground
StDeliver(b) ==
    /\ stSeen[b] < Len(stOut[b])
    /\ stSeen' = [stSeen EXCEPT ![b] = @ + 1]
    /\ stConn' = [stConn EXCEPT ![b] = OnBackendMessage(b, @, stOut[b][stSeen[b] + 1].type)]
    /\ UNCHANGED <<stEnv, stPc, stDb, stOut, migrations, loopVars, muxVars, fgVars,
                   swVars, pageVars, ctxVars>>

NextOpen == \E b \in Backends : StOnInit(b) \/ StInitDone(b) \/ StDeliver(b)

(***************************************************************************)
(* The async message handler of a Backend on its event loop:               *)
(* shared-worker.ts 38-171, drizzle/0000_adorable_lord_tyger.sql 66-125    *)
(***************************************************************************)
LoopKinds == {"shared", "opfs"}
Frame(k, pc) == [k |-> k, pc |-> pc]
Top(st) == st[Len(st)]
Pop(st) == SubSeq(st, 1, Len(st) - 1)
SetTop(st, f) == [st EXCEPT ![Len(st)] = f]

LoopIdle ==
    /\ elQueue = <<>>
    /\ elArrived = 0
    /\ elStack = <<>>
    /\ elWaiting = 0
    /\ elResumable = 0
    /\ elDb = "null"
    /\ elInProgress = FALSE
    /\ elStmts = 0

\* a message handler or a continuation is started only when no handler call is running:
\* a handler runs to its next await or to its end before anything else runs
MayStartAnytime(stack) == TRUE
MayStart(stack) == stack = <<>>

\* a page posts init or exec-all / exec-get
ElArrive(t) ==
    /\ elArrived < MaxMsgs
    /\ elArrived' = elArrived + 1
    /\ elQueue' = Append(elQueue, t)
    /\ UNCHANGED <<elKind, elStack, elWaiting, elResumable, elDb, elInProgress, elStmts>>
    /\ UNCHANGED <<migrations, openVars, muxVars, fgVars, swVars, pageVars, ctxVars>>

\* the event loop calls onmessage with the next message
ElDispatch ==
    /\ MayStart(elStack)
    /\ elQueue # <<>>
    /\ elStack' = Append(elStack, Frame(Head(elQueue), "entry"))
    /\ elQueue' = Tail(elQueue)
    /\ UNCHANGED <<elKind, elArrived, elWaiting, elResumable, elDb, elInProgress, elStmts>>
    /\ UNCHANGED <<migrations, openVars, muxVars, fgVars, swVars, pageVars, ctxVars>>

\* the promise of init() settles: the engine is loaded and the file is open
ElInitSettles ==
    /\ elWaiting > 0
    /\ elWaiting' = elWaiting - 1
    /\ elResumable' = elResumable + 1
    /\ UNCHANGED <<elKind, elQueue, elArrived, elStack, elDb, elInProgress, elStmts>>
    /\ UNCHANGED <<migrations, openVars, muxVars, fgVars, swVars, pageVars, ctxVars>>

\* the continuation of `await init(...)` is run
ElResume ==
    /\ MayStart(elStack)
    /\ elResumable > 0
    /\ elResumable' = elResumable - 1
    /\ elStack' = Append(elStack, Frame("resume", "opened"))
    /\ UNCHANGED <<elKind, elQueue, elArrived, elWaiting, elDb, elInProgress, elStmts>>
    /\ UNCHANGED <<migrations, openVars, muxVars, fgVars, swVars, pageVars, ctxVars>>

\* the innermost running handler call executes up to its next statement
\* boundary, await or return
ElStep ==
    LET f == Top(elStack) IN
    /\ elStack # <<>>
    /\ CASE f.k = "exec" /\ f.pc = "entry" ->
               \* if (!db) { post exec-error; return }; stmt = db.prepare(sql)
               IF elDb = "null"
                  THEN /\ elStack' = Pop(elStack)
                       /\ UNCHANGED <<elWaiting, elDb, elInProgress, elStmts>>
                  ELSE /\ elStack' = SetTop(elStack, Frame("exec", "stmt"))
                       /\ elStmts' = elStmts + 1
                       /\ UNCHANGED <<elWaiting, elDb, elInProgress>>
         [] f.k = "exec" /\ f.pc = "stmt" ->
               \* stmt.step() ...; stmt.finalize(); post exec-finished
               /\ elStack' = Pop(elStack)
               /\ elStmts' = elStmts - 1
               /\ UNCHANGED <<elWaiting, elDb, elInProgress>>
         [] f.k = "init" ->
               \* SharedWorker: answered at once when dbInitialized or
               \* initInProgress; else, and always in the opfs worker,
               \* the call is suspended in `await init(filename)`
               IF elKind = "shared" /\ (elDb # "null" \/ elInProgress)
                  THEN /\ elStack' = Pop(elStack)
                       /\ UNCHANGED <<elWaiting, elDb, elInProgress, elStmts>>
                  ELSE /\ elStack' = Pop(elStack)
                       /\ elWaiting' = elWaiting + 1
                       /\ elInProgress' = (elKind = "shared")
                       /\ UNCHANGED <<elDb, elStmts>>
         [] f.k = "resume" /\ f.pc = "opened" ->
               \* db = result.db; db.exec(['PRAGMA ...', 'PRAGMA ...'])
               /\ elStack' = SetTop(elStack, Frame("resume", "pragma"))
               /\ elDb' = "open"
               /\ elStmts' = elStmts + 1
               /\ UNCHANGED <<elWaiting, elInProgress>>
         [] f.k = "resume" /\ f.pc = "pragma" ->
               \* dbInitialized = true; initInProgress = false; post init-finished
               /\ elStack' = Pop(elStack)
               /\ elStmts' = elStmts - 1
               /\ elInProgress' = FALSE
               /\ UNCHANGED <<elWaiting, elDb>>
    /\ UNCHANGED <<elKind, elQueue, elArrived, elResumable>>
    /\ UNCHANGED <<migrations, openVars, muxVars, fgVars, swVars, pageVars, ctxVars>>

NextLoop ==
    \/ \E t \in {"init", "exec"} : ElArrive(t)
    \/ ElDispatch
    \/ ElInitSettles
    \/ ElResume
    \/ ElStep

AllSupported == [opfs |-> TRUE, sync |-> TRUE, async |-> TRUE, mem |-> TRUE]

\* the repository's drizzle/ directory holds one script
Init ==
    /\ InitMux /\ InitSys
    /\ migrations = MigStmts
    /\ OpenIdle /\ stEnv = AllSupported
    /\ LoopIdle /\ elKind = "shared"

\* the Backends' init under every storage environment
InitOpen ==
    /\ InitMux /\ InitSys
    /\ migrations = MigStmts
    /\ OpenIdle /\ stEnv \in Envs
    /\ LoopIdle /\ elKind = "shared"
SpecOpen == InitOpen /\ [][NextOpen]_vars

\* the message handler of either Backend on its event loop
InitLoop ==
    /\ InitMux /\ InitSys
    /\ migrations = MigStmts
    /\ OpenIdle /\ stEnv = AllSupported
    /\ LoopIdle /\ elKind \in LoopKinds
SpecLoop == InitLoop /\ [][NextLoop]_vars

\* every handler that is due runs: the workers' and the pages' event loops
FairOpen ==
    /\ SpecOpen
    /\ \A b \in Backends : WF_vars(StOnInit(b))
    /\ \A b \in Backends : WF_vars(StInitDone(b))
    /\ \A b \in Backends : WF_vars(StDeliver(b))

\* one foreground connection and the SharedWorker
NextSolo ==
    \/ ProviderMount(1)
    \/ SwConnect(1)
    \/ SwOnInit(1)
    \/ \E ok \in BOOLEAN : SwInitDone(ok)
    \/ SwOnExec(1)
    \/ PortDeliver(1)
    \/ Render(1)
    \/ \E r \in DOMAIN runs : ScriptLoaded(r)
    \/ \E tq \in UserQueries : UserQuery(1, tq)
    \/ ResetDatabase(1)
SpecSolo == Init /\ [][NextSolo]_vars

\* the two Correlators with responses that are delivered twice; the page and
\* the provider share no state, the page's steps are taken first
NextCorr ==
    \/ NextSolo
    \/ \E h \in DOMAIN reqs : Redeliver(1, h)
    \/ provMounted = {} /\ \E q \in PageQueries : PageQuery(q)
    \/ provMounted = {} /\ WOnExec
    \/ provMounted = {} /\ PageDeliver
    \/ provMounted = {} /\ \E h \in DOMAIN mReqs : PageRedeliver(h)
SpecCorr == Init /\ [][NextCorr]_vars

\* two foreground connections start against the same SharedWorker
NextDuo ==
    \/ \E c \in Conns : ProviderMount(c)
    \/ \E c \in Conns : SwConnect(c)
    \/ \E c \in Conns : SwOnInit(c)
    \/ \E ok \in BOOLEAN : SwInitDone(ok)
    \/ \E c \in Conns : SwOnExec(c)
    \/ \E c \in Conns : PortDeliver(c) /\ Len(reqs') <= MaxDuoReqs
    \/ \E c \in Conns : Render(c)
    \/ \E r \in DOMAIN runs : ScriptLoaded(r) /\ Len(reqs') <= MaxDuoReqs
    \/ \E c \in Conns : ResetDatabase(c)
SpecDuo == Init /\ [][NextDuo]_vars

\* A provider on the Multiplexer becomes Ready, then a second provider is
\* mounted and connects
NextJoin ==
    \/ ProviderMount(1)
    \/ isInitialized[1] /\ \E c \in Conns \ {1} : ProviderMount(c)
    \/ \E c \in Conns : MxConnect(c)
    \/ \E c \in Conns : MxPortOnMessage(c)
    \/ MxWorkerOnMessage
    \/ MxOnInit
    \/ \E e \in initAwait, ok \in BOOLEAN : MxInitDone(e, ok)
    \/ MxOnExec
    \/ MxHandshake
    \/ \E c \in Conns : PortDeliver(c)
    \/ \E c \in Conns : Render(c)
    \/ \E r \in DOMAIN runs : ScriptLoaded(r)
SpecJoin == Init /\ [][NextJoin]_vars

\* Two foreground connections race their Migration Engine runs: both
\* providers are mounted and connected, the SharedWorker has handled the
\* init of connection 1, has answered the init of the others while that one
\* was in progress, and has fanned init-finished out to every port; the
\* messages posted before init-finished are delivered
RaceStart ==
    /\ provMounted = Conns
    /\ isInitialized = [c \in Conns |-> FALSE]
    /\ dbSet = [c \in Conns |-> FALSE]
    /\ awaiting = [c \in Conns |-> EmptyMap]
    /\ awaitingRef = [c \in Conns |-> EmptyMap]
    /\ runs = <<>>
    /\ toWorker = [c \in Conns |-> <<>>]
    /\ toConn = [c \in Conns |-> <<Reply("init-finished", 0, <<>>, 0)>>]
    /\ reqs = <<>>
    /\ gen = [c \in Conns |-> 0]
    /\ resetSnap = [c \in Conns |-> {}]
    /\ delivered = {}
    /\ dup = {}
    /\ swPorts = Conns
    /\ swHandler = Conns
    /\ swDb = "open"
    /\ dbInitialized = TRUE
    /\ initInProgress = FALSE
    /\ initError = FALSE
    /\ swInitFrom = 0
    /\ store = EmptyStore
    /\ loadEmpty = {}
InitRace ==
    /\ InitMux /\ PageInit /\ CxInit
    /\ RaceStart
    /\ migrations = MigStmts
    /\ OpenIdle /\ stEnv = AllSupported
    /\ LoopIdle /\ elKind = "shared"
NextRace ==
    \/ \E c \in Conns : SwOnExec(c)
    \/ \E c \in Conns : PortDeliver(c)
    \/ \E c \in Conns : Render(c)
    \/ \E r \in DOMAIN runs : ScriptLoaded(r)
SpecRace == InitRace /\ [][NextRace]_vars

\* The event loop of the page runs every handler, render and continuation
\* that is due, and the SharedWorker accepts connections and initialises; a
\* statement handed to the Backend need not return (a stalled Backend), and
\* the user is not obliged to act.
FairStall ==
    /\ SpecSolo
    /\ WF_vars(PortDeliver(1))
    /\ WF_vars(Render(1))
    /\ WF_vars(\E r \in DOMAIN runs : ScriptLoaded(r))
    /\ WF_vars(SwConnect(1))
    /\ WF_vars(SwOnInit(1))
    /\ WF_vars(SwInitDone(TRUE))

\* the page with the module-level connection and its dedicated worker
SpecPage == Init /\ [][NextPage]_vars

\* the page with any drizzle/ directory of up to MaxScripts scripts of up to
\* MaxStmts statements each
ScriptLists == UNION {[1..n -> 1..MaxStmts] : n \in 1..MaxScripts}
InitOrder ==
    /\ InitMux /\ InitSys
    /\ migrations \in ScriptLists
    /\ OpenIdle /\ stEnv = AllSupported
    /\ LoopIdle /\ elKind = "shared"
\* the page's runs without queries of the user interface
NextOrder ==
    \/ PageReset
    \/ \E k \in DOMAIN mCalls : ResetTimeout(k)
    \/ \E i \in DOMAIN mInits : InitTimeout(i)
    \/ PageDeliver
    \/ \E r \in DOMAIN mRuns : PageScriptLoaded(r)
    \/ WOnInit
    \/ \E ok \in BOOLEAN : WInitDone(ok)
    \/ WOnExec
SpecOrder == InitOrder /\ [][NextOrder]_vars

SpecMux == Init /\ [][NextMux]_vars

\* the context provider with its dedicated worker
SpecCtx == Init /\ [][NextCtx]_vars

\* The event loops of the Multiplexer and of the Backend handle every
\* delivered message; the foreground and the environment are not obliged to act.
FairMux ==
    /\ SpecMux
    /\ \A p \in PortIds : WF_vars(MuxConnect(p))
    /\ \A p \in PortIds : WF_vars(MuxPortOnMessage(p))
    /\ WF_vars(MuxWorkerOnMessage)
    /\ WF_vars(OpfsOnInit)
    /\ WF_vars(\E m \in initAwait : OpfsInitDone(m, TRUE))
    /\ WF_vars(\E ok \in BOOLEAN : OpfsOnExec(ok))

(***************************************************************************)
(* C1, C2: Multiplexer queueing                                            *)
(***************************************************************************)
\* C1: nothing received while opfsWorkerReady = false is posted to the
\* Backend before readiness, and once readiness is reached the messages
\* posted by the flush are exactly the messages received before readiness,
\* in the order received, each exactly once.
C1_QueueFlushedInOrder ==
    /\ ~opfsWorkerReady => /\ posted = <<>>
                           /\ messageQueue = preReady
    /\ opfsWorkerReady => /\ Len(posted) >= Len(preReady)
                          /\ SubSeq(posted, 1, Len(preReady)) = preReady
                          /\ \A i, j \in DOMAIN posted : posted[i] = posted[j] => i = j

\* C1 witness: two messages of different ports were queued and then flushed
C1_Witness ==
    /\ opfsWorkerReady
    /\ Len(preReady) >= 2
    /\ preReady[1].from # preReady[2].from
    /\ Len(posted) >= 2

\* C2: every message a foreground port sends to the Multiplexer, the first
\* init included, is eventually forwarded to the Backend.
C2_EveryMessageForwarded ==
    \A p \in PortIds : \A k \in 1..MaxSend :
        (sentCount[p] >= k) ~> (\E i \in DOMAIN posted : posted[i].from = p /\ posted[i].seq = k)

(***************************************************************************)
(* C3: Correlator exactly-once                                             *)
(***************************************************************************)
\* the state a second delivery must leave alone
CorrState == <<isInitialized, dbSet, awaiting, runs, toWorker, reqs,
               mAwaiting, mReqs, mRuns, mIsInitialized, wInbox>>

\* C3: a completion is settled only by a response carrying its own id, its
\* entry has left the pending map once a response settled it, and a second
\* delivery of a response with the same id changes nothing (so no completion
\* is settled twice).
C3_SettledOnceByOwnId ==
    /\ [](\A h \in DOMAIN reqs :
            reqs[h].by # 0 =>
               /\ reqs[h].st # "pending"
               /\ reqs[reqs[h].by].id = reqs[h].id
               /\ reqs[h].id \notin DOMAIN awaiting[reqs[h].conn])
    /\ [](\A h \in DOMAIN mReqs :
            mReqs[h].by # 0 =>
               /\ mReqs[h].st # "pending"
               /\ mReqs[mReqs[h].by].id = mReqs[h].id
               /\ mReqs[h].id \notin DOMAIN mAwaiting)
    /\ [][dup' # dup => UNCHANGED CorrState]_vars

\* C3 witness: the response that resolved a completion of the provider was
\* delivered a second time
C3_Witness ==
    \E h \in DOMAIN reqs :
        /\ <<"port", h>> \in dup
        /\ reqs[h].st = "resolved"
        /\ reqs[h].by = h

(***************************************************************************)
(* C4: every request is answered                                           *)
(***************************************************************************)
\* nothing is in flight and no handler, render or continuation is left to run
Quiescent ==
    /\ provMounted \subseteq swPorts
    /\ swInitFrom = 0
    /\ \A c \in Conns : /\ toWorker[c] = <<>>
                        /\ toConn[c] = <<>>
                        /\ awaitingRef[c] = awaiting[c]
    /\ \A r \in DOMAIN runs : runs[r].pc # "script"

\* C4: once everything that was sent has been handled, the completion of
\* every request has been settled by the response produced for it. (Stated
\* for the runs in which every response was handled while awaitingRef was up
\* to date; the requests of one connection already decide it.)
C4_EveryRequestSettled ==
    (Quiescent /\ reqs # <<>> /\ \A d \in delivered : d[3])
        => \A h \in DOMAIN reqs : reqs[h].st # "pending" /\ reqs[h].by = h

(***************************************************************************)
(* C5: reset with requests pending                                         *)
(***************************************************************************)
\* C5: a completion that is still pending is registered in the pending map of
\* its connection: a reset removes no entry without rejecting its completion,
\* so none is left forever unsettled.
C5_PendingStaysRegistered ==
    /\ \A h \in DOMAIN reqs :
          reqs[h].st = "pending" => reqs[h].id \in DOMAIN awaiting[reqs[h].conn]
    /\ \A h \in DOMAIN mReqs :
          mReqs[h].st = "pending" => mReqs[h].id \in DOMAIN mAwaiting

(***************************************************************************)
(* C6: bounded wait of a send                                              *)
(***************************************************************************)
\* C6: every request that was sent is eventually settled or answered: if no
\* response ever arrives, the completion is rejected locally. (Runs that use
\* up MaxReqs are left out.)
C6_SendSettledOrAnswered ==
    \A h \in 1..MaxReqs :
        (h \in DOMAIN reqs) ~>
            /\ h \in DOMAIN reqs
            /\ \/ reqs[h].st # "pending"
               \/ \E d \in delivered : d[1] = h
               \/ Len(reqs) >= MaxReqs

(***************************************************************************)
(* C7: responses of the generation before a reset                          *)
(***************************************************************************)
\* C7: no completion is settled by a response that was produced for a request
\* issued before a reset which the completion's own request was issued after.
C7_NoStaleResponseSettles ==
    /\ \A h \in DOMAIN reqs :
          reqs[h].by # 0 => reqs[reqs[h].by].gen >= reqs[h].gen
    /\ \A h \in DOMAIN mReqs :
          mReqs[h].by # 0 => mReqs[mReqs[h].by].w >= mReqs[h].w

\* C7 witness: the response of a request issued before the reset was handled
\* after it, and a request issued after the reset was settled by its own response
C7_Witness ==
    /\ \E d \in delivered : reqs[d[1]].gen < d[2]
    /\ \E h \in DOMAIN reqs : reqs[h].gen > 0 /\ reqs[h].by = h

(***************************************************************************)
(* C8: Ready only after migration                                          *)
(***************************************************************************)
\* C8: a connection reports Ready only if one of its Migration Engine runs
\* has completed successfully and the storage the Backend has open holds the
\* record of every migration.
C8_ReadyOnlyAfterMigration ==
    /\ \A c \in Conns :
          isInitialized[c] =>
             /\ \E r \in DOMAIN runs : runs[r].conn = c /\ runs[r].pc = "done"
             /\ swDb = "open"
             /\ Migs \subseteq Range(store.recs)
    /\ mIsInitialized =>
          /\ \E r \in DOMAIN mRuns : mRuns[r].pc = "done"
          /\ wDb # "null"
          /\ Migs \subseteq Range(OpenFile.recs)

(***************************************************************************)
(* C9: reset round-trip                                                    *)
(***************************************************************************)
\* C9: when a connection is Ready again after reset(), the storage is as on
\* first boot: every migration recorded, the seed rows present and no row
\* that was stored when reset() was invoked.
C9_ResetRoundTrip ==
    \A c \in Conns :
        (isInitialized[c] /\ gen[c] > 0) =>
           /\ Migs \subseteq Range(store.recs)
           /\ store.seeds > 0
           /\ store.user \cap resetSnap[c] = {}

(***************************************************************************)
(* C10: freshness gate                                                     *)
(***************************************************************************)
\* was no migration record stored when LoadApplied request h was settled?
WasEmpty(h) == <<h, TRUE>> \in mLoadEmpty

C11_SecondRunIdempotent ==
    \A r \in DOMAIN runs :
        runs[r].after # {} =>
           /\ ~runs[r].seeded
           /\ runs[r].pc \in {"ensure", "load", "done", "failed"}
           /\ runs[r].pc = "done" =>
                 /\ runs[r].applied = Range(store.recs)
                 /\ Range(store.recs) = Migs
                 /\ Len(store.recs) = Cardinality(Migs)

\* the first run has migrated and seeded, the second one has returned
C11_Witness ==
    \E r1, r2 \in DOMAIN runs :
        /\ r1 \in runs[r2].after
        /\ runs[r1].seeded
        /\ runs[r2].pc = "done"
        /\ store.seeds = 1
(***************************************************************************)
(* C12: a record is appended after the statements of its script            *)
(***************************************************************************)
\* the requests that carried statement st of script m and were resolved
StmtDone(rq, m, st) ==
    {g \in DOMAIN rq : rq[g].q = StmtSql(m, st) /\ rq[g].st = "resolved"}

\* request h appends the record of script m: every statement of m was sent
\* before h, in script order, and has succeeded
MarkAfterStmts(rq, h) ==
    LET m == rq[h].q.m IN
    \E f \in [1..migrations[m] -> 1..h] :
        /\ \A st \in 1..migrations[m] : f[st] \in StmtDone(rq, m, st) /\ f[st] < h
        /\ \A st \in 1..(migrations[m] - 1) : f[st] < f[st + 1]

\* C12: whenever the request that appends the record of script M has been
\* sent, every statement of M has been sent before it, in script order, and
\* has been answered with success; so a record is in the table only after.
C12_RecordAfterStatements ==
    /\ \A h \in DOMAIN mReqs : mReqs[h].q.k = "mark" => MarkAfterStmts(mReqs, h)
    /\ \A h \in DOMAIN reqs : reqs[h].q.k = "mark" => MarkAfterStmts(reqs, h)
    /\ \A m \in Range(fileMain.recs) \cup Range(fileNew.recs) :
           \E h \in DOMAIN mReqs : mReqs[h].q = MarkSql(m)
    /\ \A m \in Range(store.recs) : \E h \in DOMAIN reqs : reqs[h].q = MarkSql(m)

\* a record has been appended and its request answered
C12_Witness ==
    \E h \in DOMAIN mReqs :
        /\ mReqs[h].q.k = "mark"
        /\ mReqs[h].st = "resolved"
        /\ mReqs[h].q.m \in Range(OpenFile.recs)
(***************************************************************************)
(* C13: a failing migration statement aborts the run                       *)
(***************************************************************************)
\* C13: once a statement of a migration script has been rejected, the run
\* that sent it has thrown and has sent nothing after it (no later statement,
\* no record, no seed insert), and as long as its worker is the connection's
\* worker no record of the script is stored and the connection is not Ready.
C13_FailedStatementAborts ==
    \A h \in DOMAIN cxReqs :
        (cxReqs[h].q.k = "stmt" /\ cxReqs[h].st = "rejected") =>
           LET r == cxReqs[h].run IN
           /\ cxRuns[r].pc = "failed"
           /\ \A g \in DOMAIN cxReqs : cxReqs[g].run = r => g <= h
           /\ ~cxRuns[r].seeded
           /\ cxRuns[r].w = cxWorker =>
                 /\ cxReqs[h].q.m \notin Range(cxFile.recs)
                 /\ ~cxIsInitialized

\* the second statement of the script failed after the first had succeeded
C13_Witness ==
    \E h \in DOMAIN cxReqs :
        /\ cxReqs[h].q = StmtSql(1, 2)
        /\ cxReqs[h].st = "rejected"
        /\ cxRuns[cxReqs[h].run].w = cxWorker
        /\ TableObj \in cxFile.objs


\* the i-th request run r of the page has sent; script A as this run has
\* applied it before its j-th request: every statement in order, then the record
RunReq(r, i) == mReqs[mRuns[r].hist[i]]
ScriptApplied(r, A, j) ==
    \E f \in [0..migrations[A] -> 1..(j - 1)] :
        /\ RunReq(r, f[0]).q = MarkSql(A) /\ RunReq(r, f[0]).st = "resolved"
        /\ \A st \in 1..migrations[A] :
              /\ RunReq(r, f[st]).q = StmtSql(A, st)
              /\ RunReq(r, f[st]).st = "resolved"
              /\ f[st] < f[0]
              /\ st > 1 => f[st - 1] < f[st]
SeedReq(r) == {h \in Range(mRuns[r].hist) : mReqs[h].q = SeedSql}
SeedRejected(r) == \E h \in SeedReq(r) : mReqs[h].st = "rejected"

\* the call that awaits run r has not given up on it: a reset awaits its run
\* without a timer, initializeSQLite until its timer has rejected it
Awaited(r) ==
    LET o == mRuns[r].owner IN
    o.kind = "init" => mInits[o.n].st = "pending"

\* C15: a failing seed step never fails the run: in the step in which the seed
\* insert of a run is rejected, the run returns normally and, when its caller
\* still awaits it, the connection is marked initialized.
C15_SeedFailureNotFatal ==
    [][\A r \in DOMAIN mRuns :
          (~SeedRejected(r) /\ SeedRejected(r)') =>
              /\ mRuns'[r].pc = "done"
              /\ Awaited(r) => mIsInitialized']_vars
C15_Witness ==
    \E r \in DOMAIN mRuns :
        /\ SeedRejected(r)
        /\ mRuns[r].pc = "done"
        /\ mIsInitialized
        /\ Range(OpenFile.recs) = Migs

\* run r of the page has loaded the records and found every script recorded
FullyRecorded(r) ==
    /\ mRuns[r].pc \notin {"ensure", "load"}
    /\ mRuns[r].applied = DOMAIN migrations

\* C16: a run against a database on which every migration is recorded sends
\* the EnsureMigrationsTable statement and the LoadApplied query and nothing
\* else: no migration statement, no record, no seed insert; it returns normally.
C16_OnlyEnsureAndLoad ==
    \A r \in DOMAIN mRuns :
        FullyRecorded(r) =>
           /\ Len(mRuns[r].hist) = 2
           /\ RunReq(r, 1).q = EnsureSql
           /\ RunReq(r, 2).q = LoadSql
           /\ mRuns[r].pc = "done"
           /\ ~mRuns[r].seeded
C16_Witness ==
    \E r \in DOMAIN mRuns :
        /\ FullyRecorded(r)
        /\ RunReq(r, 2).st = "resolved"
        /\ mIsInitialized
\* C16 as stated: such a run sends exactly one request, the LoadApplied query
C16_OnlyLoad ==
    \A r \in DOMAIN mRuns :
        FullyRecorded(r) =>
           /\ Len(mRuns[r].hist) = 1
           /\ RunReq(r, 1).q = LoadSql

\* the SharedWorker posts an answer to a statement to port c in this step
ExecAnswerTo(c) ==
    /\ Len(toConn'[c]) = Len(toConn[c]) + 1
    /\ toConn'[c][Len(toConn'[c])].type \in {"exec-finished", "exec-error"}

\* C17: fan-out: an exec-finished or exec-error the Backend emits is posted
\* exactly once to every port that is registered at that moment, whichever
\* port sent the request.
C17_FanOutToEveryPort ==
    [][\A c \in Conns :
          ExecAnswerTo(c) =>
             \A d \in swPorts :
                 /\ ExecAnswerTo(d)
                 /\ toConn'[d][Len(toConn'[d])] = toConn'[c][Len(toConn'[c])]]_vars

\* the sequence numbers of port p's messages in the order the Backend got them
RECURSIVE SeqsOf(_, _)
SeqsOf(p, ms) ==
    IF ms = <<>> THEN <<>>
    ELSE IF Head(ms).from = p THEN <<Head(ms).seq>> \o SeqsOf(p, Tail(ms))
                              ELSE SeqsOf(p, Tail(ms))

\* C18: per-origin FIFO: the messages of one connection reach the Backend in
\* the order the connection sent them, the first, the second and so on without
\* a gap, whether they were queued before readiness or forwarded after it.
C18_PerOriginFifo ==
    \A p \in PortIds :
        LET got == SeqsOf(p, posted) IN
        /\ Len(got) <= sentCount[p]
        /\ \A i \in DOMAIN got : got[i] = i
C18_Witness ==
    \E p \in PortIds :
        /\ Len(SeqsOf(p, preReady)) >= 1
        /\ Len(SeqsOf(p, posted)) > Len(SeqsOf(p, preReady))
        /\ \E q \in PortIds \ {p} : Len(SeqsOf(q, posted)) >= 1

\* the SharedWorker handles an init of port c in this step, the database being
\* initialized already; del: the filename carries delete-before-open
InitOnInitialized(c, del) ==
    /\ dbInitialized
    /\ c \in swHandler
    /\ toWorker[c] # <<>>
    /\ Head(toWorker[c]).type = "init"
    /\ Head(toWorker[c]).del = del
    /\ toWorker'[c] = Tail(toWorker[c])

\* C19: a second init at an initialized Backend without the destructive flag
\* is answered with init-finished and leaves the database handle and the
\* stored data as they were; with the destructive flag the storage is
\* discarded and recreated empty.
C19_SecondInit ==
    [][\A c \in Conns :
          /\ InitOnInitialized(c, FALSE) =>
                /\ toConn'[c] = Append(toConn[c], Reply("init-finished", 0, <<>>, 0))
                /\ swDb' = swDb
                /\ store' = store
          /\ InitOnInitialized(c, TRUE) => store' = EmptyStore]_vars

\* C20: init fails only if transient storage cannot be opened either: a
\* Backend whose init handler has finished in an environment where a transient
\* database opens holds an open database and has posted init-finished.
C20_InitFailsOnlyWithoutTransient ==
    \A b \in Backends :
        (stPc[b] = "done" /\ stEnv.mem) =>
           /\ stDb[b] # "null"
           /\ \E i \in DOMAIN stOut[b] : stOut[b][i].type = "init-finished"

\* C21: the persistent flag (payload.opfs) of every init-finished is true
\* exactly when the handle in use was opened on durable storage.
C21_FlagIffDurable ==
    \A b \in Backends : \A i \in DOMAIN stOut[b] :
        stOut[b][i].type = "init-finished" =>
           (stOut[b][i].opfs <=> stDb[b] = "durable")

\* C22: whenever the initialization of a Backend has failed, the connection
\* waiting for it eventually handles an init-error and leaves the state in
\* which it is still initializing.
C22_FailedInitIndicated ==
    \A b \in Backends :
        (stPc[b] = "done" /\ stDb[b] = "null") ~> (stConn[b] = "failed")

\* the dedicated worker handles the Execute request at the head of its inbox
\* in this step
CxExecHandled ==
    /\ cxInbox # <<>>
    /\ Head(cxInbox).type \in {"exec-all", "exec-get"}
    /\ cxInbox' = Tail(cxInbox)
    /\ cxWorker' = cxWorker

\* C23: every Execute the Backend handles, after an earlier failure as well,
\* is answered with exactly one exec-finished or exec-error carrying the
\* request's id; a failing one leaves the database handle, the initialization
\* state and the stored data as they were.
C23_ExecFailureContained ==
    [][CxExecHandled =>
          LET m == Head(cxInbox)
              e == cxOut'[Len(cxOut')]
          IN  /\ cxOut' = Append(cxOut, e)
              /\ e.type \in {"exec-finished", "exec-error"}
              /\ e.id = m.id
              /\ e.type = "exec-error" =>
                    /\ cxWDb' = cxWDb
                    /\ cxWInit' = cxWInit
                    /\ cxFile' = cxFile]_vars
C23_Witness ==
    \E g, h \in DOMAIN cxReqs :
        /\ g < h
        /\ cxReqs[g].w = cxWorker /\ cxReqs[h].w = cxWorker
        /\ cxReqs[g].st = "rejected" /\ cxReqs[g].by # 0
        /\ cxReqs[h].st = "resolved"
        /\ cxFaults > 0

\* C24: between two messages the worker holds no open prepared statement:
\* the statement of every Execute was finalized, on the failure paths too.
C24_NoOpenStatement == cxStmts = 0

\* C25: the rows of the exec-finished for an exec-get are null when the
\* statement yields no row and otherwise the first row's values; the rows of
\* the exec-finished for an exec-all are the list of all rows.
C25_GetModeResult ==
    [][CxExecHandled =>
          LET m == Head(cxInbox)
              e == cxOut'[Len(cxOut')]
              yielded == SqlRows(m.sql, cxFile)
          IN  e.type = "exec-finished" =>
                 /\ m.type = "exec-get" =>
                       /\ yielded = <<>> => e.rows = Null
                       /\ yielded # <<>> => e.rows = yielded[1]
                 /\ m.type = "exec-all" => e.rows = yielded]_vars
C25_Witness ==
    \E i \in DOMAIN cxOut :
        /\ cxOut[i].type = "exec-finished"
        /\ cxReqs[cxOut[i].re].t = "exec-get"
        /\ cxOut[i].rows = Null
        /\ TableObj \in cxFile.objs

\* C26: at most one statement execution is in progress in the Backend at any
\* time, whatever messages arrive and whenever they arrive, also while a
\* handler is suspended in `await init(...)`.
C26_OneStatementAtATime == elStmts <= 1
C26_Witness ==
    /\ elStmts = 1
    /\ Top(elStack).k = "exec"
    /\ elWaiting + elResumable > 0
    /\ elQueue # <<>>

\* the port of connection c delivers init-finished in this step
ReceivesInitFinished(c) ==
    /\ c \in provMounted
    /\ toConn[c] # <<>>
    /\ Head(toConn[c]).type = "init-finished"
    /\ toConn'[c] = Tail(toConn[c])

\* C27: at the moment a connection receives init-finished, every migration
\* is already recorded in the database and the seed rows are present.
C27_InitFinishedAfterMigration ==
    [][\A c \in Conns :
          ReceivesInitFinished(c) =>
             /\ Migs \subseteq Range(store.recs)
             /\ store.seeds > 0]_vars

\* every connection has started a run on an init-finished, no connection has
\* reset the database, and every run has ended with nothing left in flight
AllRunsEnded ==
    /\ Quiescent
    /\ \A c \in Conns : gen[c] = 0 /\ \E r \in DOMAIN runs : runs[r].conn = c
    /\ \A r \in DOMAIN runs : runs[r].pc \in {"done", "failed"}

\* C28: when every connection has started a Migration Engine run on the
\* init-finished it received and all the runs have ended, the database is as
\* after one run: each migration recorded exactly once, the seed rows
\* inserted exactly once.
C28_ConcurrentRunsConverge ==
    AllRunsEnded =>
       /\ Range(store.recs) = Migs
       /\ Len(store.recs) = Cardinality(Migs)
       /\ store.seeds = 1
C28_Witness ==
    /\ AllRunsEnded
    /\ \E r1, r2 \in DOMAIN runs :
          /\ runs[r1].conn # runs[r2].conn
          /\ runs[r1].fresh /\ runs[r2].fresh

\* C29: when the connections run the Migration Engine concurrently against
\* the same empty database, every run returns without an error and every
\* connection becomes Ready: once all the runs have ended and nothing is in
\* flight, no run has failed and isInitialized is true on every connection.
C29_EveryConnectionReady ==
    AllRunsEnded =>
       /\ \A r \in DOMAIN runs : runs[r].pc = "done"
       /\ \A c \in Conns : isInitialized[c]

\* the port of a Ready connection c delivers, in this step, the init-finished
\* that answers the init of another port
ForeignInitFinished(c) ==
    /\ isInitialized[c] /\ dbSet[c]
    /\ c \in provMounted
    /\ toConn[c] # <<>>
    /\ Head(toConn[c]).type = "init-finished"
    /\ Head(toConn[c]).re \in Conns \ {c}
    /\ toConn'[c] = Tail(toConn[c])

CxHandlesMapResponse(h) ==
    /\ cxOut # <<>>
    /\ Head(cxOut).type \in {"exec-finished", "exec-error"}
    /\ Head(cxOut).re = h
    /\ cxReqs[h].via = "map"
    /\ cxReqs[h].w = cxWorker
    /\ cxReqs[h].st = "pending"
    /\ cxOut' = Tail(cxOut)

\* C31: the pending entry of a request is in awaitingRef.current when the
\* response to that request is handled: no exec-finished / exec-error for an
\* id that was sent is discarded as unknown.
C31_EntryVisibleToHandler ==
    [][\A h \in DOMAIN cxReqs :
          CxHandlesMapResponse(h) =>
             /\ Head(cxOut).id \in DOMAIN cxAwaitingRef
             /\ cxReqs'[h].st # "pending"]_vars

\* the port of connection c delivers its next message in this step
Delivers(c) ==
    /\ c \in provMounted
    /\ toConn[c] # <<>>
    /\ toConn'[c] = Tail(toConn[c])

\* a response whose id is not in the pending map of c, or that was produced
\* for a request of another connection
UnknownResponse(c, e) ==
    /\ e.type \in {"exec-finished", "exec-error"}
    /\ e.id \notin DOMAIN awaiting[c] \/ reqs[e.re].conn # c

\* a message of a type handleMessage has no case for
OtherMessage(e) ==
    e.type \notin {"init-finished", "init-error", "exec-finished", "exec-error"}

\* C32: a response whose id is not in the connection's pending map (another
\* connection's response that arrives through the fan-out) and a message of
\* another type settle no completion, leave the pending map as it is and
\* resume no run.
C32_UnknownResponseIgnored ==
    [][\A c \in Conns :
          (Delivers(c) /\ (UnknownResponse(c, Head(toConn[c])) \/ OtherMessage(Head(toConn[c]))))
             => /\ awaiting'[c] = awaiting[c]
                /\ reqs' = reqs
                /\ runs' = runs
                /\ isInitialized' = isInitialized]_vars
\* connection 2 has handled the response to a request of connection 1 that
\* was sent after its own request, and its own request is still pending
C32_Witness ==
    \E h1, h2 \in DOMAIN reqs :
        /\ h2 < h1
        /\ reqs[h1].conn = 1 /\ reqs[h2].conn = 2
        /\ reqs[h1].st # "pending"
        /\ \A i \in DOMAIN toConn[2] : toConn[2][i].re # h1
        /\ reqs[h2].st = "pending"
        /\ reqs[h2].id \in DOMAIN awaiting[2]

\* the SharedWorker handles, in this step, an init of port c while the
\* initialization started by another init is in progress
InitWhileInProgress(c) ==
    /\ initInProgress
    /\ c \in swHandler
    /\ toWorker[c] # <<>>
    /\ Head(toWorker[c]).type = "init"
    /\ toWorker'[c] = Tail(toWorker[c])

\* C33: an init received while an initialization is in progress starts no
\* second one, is answered with an init-error posted to the requesting port
\* only, and leaves db, dbInitialized, initInProgress and initError unchanged.
C33_OneInitAtATime ==
    [][\A c \in Conns :
          InitWhileInProgress(c) =>
             /\ toConn' = [toConn EXCEPT ![c] = Append(@, Reply("init-error", 0, <<>>, 0))]
             /\ swInitFrom' = swInitFrom
             /\ swDb' = swDb
             /\ dbInitialized' = dbInitialized
             /\ initInProgress' = initInProgress
             /\ initError' = initError]_vars
\* the init of one port is in progress, the init of another port has been
\* handled and answered with init-error
C33_Witness ==
    \E c \in swHandler :
        /\ initInProgress /\ ~initError /\ swDb = "null"
        /\ swInitFrom \notin {0, c}
        /\ \A d \in Conns : gen[d] = 0
        /\ toWorker[c] = <<>>
        /\ toConn[c] # <<>>
        /\ toConn[c][Len(toConn[c])].type = "init-error"

\* the dedicated worker handles, in this step, a request while `db` is null
ExecWithoutDb ==
    /\ wInbox # <<>>
    /\ Head(wInbox).type = "exec"
    /\ wDb = "null"
    /\ wInbox' = Tail(wInbox)

\* C34: a request handled while no database handle is open is answered with
\* exactly one exec-error that carries the request's id and the text
\* 'Database not initialized'; no statement is executed and the worker's
\* state stays as it was.
C34_ExecBeforeInit ==
    [][ExecWithoutDb =>
          /\ Len(wOut') = Len(wOut) + 1
          /\ SubSeq(wOut', 1, Len(wOut)) = wOut
          /\ wOut'[Len(wOut')].type = "exec-error"
          /\ wOut'[Len(wOut')].id = Head(wInbox).id
          /\ wOut'[Len(wOut')].ni
          /\ fileMain' = fileMain /\ fileNew' = fileNew
          /\ wDb' = wDb /\ wPend' = wPend]_vars
\* a request sent before the database was opened has been answered with
\* 'Database not initialized' under its own id, the database still empty
C34_Witness ==
    \E i \in DOMAIN wOut :
        /\ wOut[i].type = "exec-error" /\ wOut[i].ni
        /\ mReqs[wOut[i].re].id = wOut[i].id
        /\ fileMain = EmptyStore

\* C35: opfsWorkerReady never goes from true to false, a re-init after a
\* reset included, and whenever it is true after a handler has run the
\* messageQueue is empty.
C35_ReadinessMonotonic ==
    [][/\ opfsWorkerReady => opfsWorkerReady'
       /\ opfsWorkerReady' => messageQueue' = <<>>]_vars
\* messages were queued before readiness, and a reset's init sent after
\* readiness has gone through the Backend, its answer through the Multiplexer
C35_Witness ==
    /\ opfsWorkerReady
    /\ preReady # <<>>
    /\ messageQueue = <<>>
    /\ \E i \in DOMAIN posted :
          LET m == posted[i] IN
            /\ m.type = "init" /\ m.seq > 1
            /\ m \notin Range(preReady)
            /\ m \notin Range(workerInbox)
            /\ m \notin initAwait
            /\ \A j \in DOMAIN workerOut : workerOut[j].re # <<m.from, m.seq>>

\* the dedicated worker handles, in this step, a legacy `exec` message
HandlesLegacyExec ==
    /\ wInbox # <<>>
    /\ Head(wInbox).type = "exec"
    /\ wInbox' = Tail(wInbox)
\* the same payload sent as an exec-all
AsExecAll(m) == [m EXCEPT !.type = "exec-all"]

\* C36: a legacy `exec` message gets exactly one response, the one an
\* exec-all with the same payload gets (same type, id and rows), and changes
\* the database as that exec-all does.
C36_LegacyExecIsExecAll ==
    [][HandlesLegacyExec =>
          LET m == Head(wInbox)
              a == WReply(AsExecAll(m), wDb, OpenFile)
          IN /\ wOut' = Append(wOut, a)
             /\ a.type \in {"exec-finished", "exec-error"}
             /\ a.id = m.id
             /\ fileMain' = IF wDb = "main" /\ a.type = "exec-finished"
                               THEN SqlEffect(m.sql, m.h, fileMain) ELSE fileMain
             /\ fileNew' = IF wDb = "new" /\ a.type = "exec-finished"
                              THEN SqlEffect(m.sql, m.h, fileNew) ELSE fileNew]_vars
\* a legacy request has been answered with its id and every row of a
\* non-empty result, after legacy requests have changed the database
C36_Witness ==
    /\ \E i \in DOMAIN wOut :
          /\ wOut[i].type = "exec-finished" /\ wOut[i].rows # <<>>
          /\ mReqs[wOut[i].re].id = wOut[i].id
    /\ fileMain # EmptyStore

\* initializeSQLite call i was rejected by its timer while isInitialized was false
TimedOut(i) == mInits[i].st = "timedout"

\* C37 as stated: once an initializeSQLite call has been rejected by its
\* timer, isDBReady() is false in every later state.
C37_NeverReadyAfterTimeout ==
    (\E i \in DOMAIN mInits : TimedOut(i)) => ~mIsInitialized

\* this step makes isDBReady() true at line 398 of a resetDatabase call
ResetCompletes ==
    \E k \in DOMAIN mCalls : mCalls[k].pc = "migrate" /\ mCalls'[k].pc = "done"
\* this step makes isDBReady() true in the .then of initializeSQLite call i
InitResolves(i) == mInits[i].st = "pending" /\ mInits'[i].st = "resolved"

\* C37 amended: a call rejected by its timer stays rejected, and no later
\* init-finished or migration run started for it sets isInitialized; after
\* the timeout isDBReady() becomes true only where a resetDatabase call
\* completes or where another, still pending initializeSQLite call resolves.
C37_TimedOutCallNeverSetsReady ==
    [][/\ \A i \in DOMAIN mInits : TimedOut(i) => /\ i \in DOMAIN mInits'
                                                   /\ mInits'[i] = mInits[i]
       /\ (~mIsInitialized /\ mIsInitialized') =>
              \/ ResetCompletes
              \/ \E i \in DOMAIN mInits : InitResolves(i)]_vars
\* after the timeout an init-finished has started a migration run for the
\* call, the run has ended successfully, and isDBReady() is still false
C37_Witness ==
    \E i \in DOMAIN mInits, r \in DOMAIN mRuns :
        /\ TimedOut(i)
        /\ mRuns[r].owner = [kind |-> "init", n |-> i]
        /\ mRuns[r].pc = "done"
        /\ ~mIsInitialized
====
